---- MODULE Spec2Model ----
(***************************************************************************)
(* Agent Tree delegation: the worker process (cli/src/agent_tree_worker.rs) *)
(* and the parent-side delegate handler (core/src/tools/handlers/           *)
(* agent_tree.rs), joined by two pipes that carry one IPC message per line  *)
(* (core/src/agent_tree/ipc.rs).                                            *)
(*                                                                          *)
(* Tasks of the worker: the main task (run), the input dispatcher           *)
(* (stdin_task), the drain supervisor (drain_task) and the per-thread       *)
(* drains (spawn_thread_event_drain).  One action is one stretch of code    *)
(* between two points where the task can be overtaken by another task in a  *)
(* way that matters: a write to stdout (send, atomic under the stdout       *)
(* mutex; the mutex itself is modelled in SendSpec), a registry operation,  *)
(* the resolution of a oneshot receiver.  The runtime is multi-threaded, so *)
(* tasks keep running between the return of run and the process exit.       *)
(***************************************************************************)
EXTENDS Integers, Sequences, FiniteSets, TLC

\* ---------------------------------------------------------------- bounds
MaxEvents == 2      \* events the drains handle in one run, all threads
MaxEnvLines == 2    \* moves of an arbitrary peer after the first line: a line, a close
MaxChildLines == 3  \* lines an arbitrary child writes to its stdout
MaxSends == 2       \* messages one task sends, in the model of send itself

\* ------------------------------------------------------------ data model
L2 == "L2"
Threads == {"L2", "T2"}                \* ThreadId: the L2 thread, one sub-agent
EventIds == {"e1", "e2"}               \* Event.id values the agent uses
Kinds == {"user_input", "exec_approval", "patch_approval"}
Slots == {"enum", "bcast"}             \* the two spawn sites of a drain
DrainIds == Threads \X Slots

\* AgentTreeRequestKey::new(thread_id, event_id)
RequestKey(t, e) == [thread_id |-> t, event_id |-> e]
Keys == {RequestKey(t, e) : t \in Threads, e \in EventIds}

\* ReviewDecision::default() and RequestUserInputResponse{answers: HashMap::new()}
ReviewDecisionDefault == "denied"
EmptyAnswers == "answers_empty"
Values(kind) ==
    IF kind = "user_input" THEN {EmptyAnswers, "answers_q1_yes"}
    ELSE {ReviewDecisionDefault, "approved"}
\* unwrap_or_else(|_| RequestUserInputResponse{..}) / unwrap_or_default()
DefaultAnswer(kind) ==
    IF kind = "user_input" THEN EmptyAnswers ELSE ReviewDecisionDefault

\* type tags of AgentTreeIpcMessage, #[serde(tag = "type", rename_all = "snake_case")]
NeedType(kind) ==
    CASE kind = "user_input" -> "need_user_input"
      [] kind = "exec_approval" -> "need_exec_approval"
      [] kind = "patch_approval" -> "need_patch_approval"
AnswerType(kind) ==
    CASE kind = "user_input" -> "user_input_answer"
      [] kind = "exec_approval" -> "exec_approval_answer"
      [] kind = "patch_approval" -> "patch_approval_answer"
NeedTypes == {NeedType(k) : k \in Kinds}
AnswerTypes == {AnswerType(k) : k \in Kinds}
KindOfNeed(ty) == CHOOSE k \in Kinds : NeedType(k) = ty
KindOfAnswer(ty) == CHOOSE k \in Kinds : AnswerType(k) = ty

WorkRequestMsg == [type |-> "work_request"]
NeedMsg(kind, key, n) == [type |-> NeedType(kind), request_key |-> key, ev |-> n]
AnswerMsg(kind, key, v) == [type |-> AnswerType(kind), request_key |-> key, value |-> v]
LogMsg(level, text) == [type |-> "log", level |-> level, message |-> text]
ErrorMsg(text) == [type |-> "error", message |-> text]
WorkerResultMsg(s, c) == [type |-> "worker_result", summary |-> s, commands |-> c]
\* a line that serde_json::from_str::<AgentTreeIpcMessage> rejects
Malformed == [type |-> "malformed"]

\* AgentStatus and is_final_status
FinalStatuses == {"completed_some", "completed_none", "errored", "shutdown", "not_found"}
\* a test that also lets Running through
is_final_status_running(s) == s \in FinalStatuses \cup {"running"}
is_final_status(s) == s \in FinalStatuses
\* the match of wait_for_final_message
FinalSummary(s) ==
    CASE s = "completed_some" -> "msg"
      [] s = "completed_none" -> ""
      [] s = "errored" -> "msg"
      [] s = "shutdown" -> "shutdown"
      [] s = "not_found" -> "not found"

NoEv == [n |-> 0, kind |-> "none", id |-> "none"]

VARIABLES
    alive,      \* the worker process exists
    exitCode,   \* its exit status once it has exited ("none" before)
    mpc,        \* position of the main task (run)
    summary,    \* result of wait_for_final_message
    snapshot,   \* commands.lock().await.clone()
    dpc,        \* position of the input dispatcher (stdin_task)
    spc,        \* position of the drain supervisor (drain_task)
    cancel,     \* event_loop_cancel
    bcast,      \* thread_created_rx: creations broadcast and not yet received
    drain,      \* per-thread drains: [pc, ev], by spawn site
    rx,         \* the oneshot receiver a drain's handler holds
    pending,    \* the three pending registries: kind -> (key -> sender)
    commands,   \* the command log
    created,    \* threads the ThreadManager knows
    l2status,   \* AgentStatus of the L2 thread
    nev,        \* events the agent threads have emitted to a drain so far
    taken,      \* history: per thread, the events drains took, in order
    submitted,  \* history: per thread, the answers submitted to it, in order
    dlog,       \* history: the answers the dispatcher handled, and whether the key was present
    win,        \* worker stdin pipe: lines written and not yet read
    winClosed,  \* the write end of the worker's stdin is closed
    nenv,       \* lines written by the arbitrary peer / child
    wout,       \* worker stdout: every line written, in order
    woutReader, \* the read end of the worker's stdout is open
    prd,        \* lines of wout the parent has read
    ppc,        \* position of delegate::handle
    pcur,       \* the Need* message delegate is answering
    pwrote,     \* history: lines delegate wrote to the child's stdin
    presult,    \* what delegate::handle returned
    slock,      \* send: the task that holds the stdout mutex, or "free"
    spos,       \* send: per task, its position inside send
    sn,         \* send: per task, the messages it has started to send
    sbytes,     \* send: the chunks written to stdout, in order
    fin,        \* a function of the program taken alone: its input
    fmid,       \* ... an intermediate value (the encoding, the stream)
    fout,       \* ... its result
    fpc         \* ... how far it has been applied

wvars == <<alive, exitCode, mpc, summary, snapshot, dpc, spc, cancel, bcast, drain, rx,
           pending, commands, taken, submitted, dlog>>
avars == <<created, l2status, nev>>
pipes == <<win, winClosed, nenv, wout, woutReader>>
pvars == <<prd, ppc, pcur, pwrote, presult>>
svars == <<slock, spos, sn, sbytes>>
fvars == <<fin, fmid, fout, fpc>>
vars == <<wvars, avars, pipes, pvars, svars, fvars>>

NoResult == [kind |-> "none"]
\* the tasks that call send: run, stdin_task, a per-thread drain
Producers == {"main", "stdin_task", "drain"}

\* every process before its first step
Idle ==
    /\ alive = TRUE
    /\ exitCode = "none"
    /\ mpc = "first_line"
    /\ summary = "none"
    /\ snapshot = <<>>
    /\ dpc = "none"
    /\ spc = "none"
    /\ cancel = FALSE
    /\ bcast = <<>>
    /\ drain = [d \in DrainIds |-> [pc |-> "none", ev |-> NoEv]]
    /\ rx = [d \in DrainIds |-> "none"]
    /\ pending = [k \in Kinds |-> <<>>]
    /\ commands = <<>>
    /\ created = {}
    /\ l2status = "none"
    /\ nev = 0
    /\ taken = [t \in Threads |-> <<>>]
    /\ submitted = [t \in Threads |-> <<>>]
    /\ dlog = <<>>
    /\ win = <<>>
    /\ winClosed = FALSE
    /\ nenv = 0
    /\ wout = <<>>
    /\ woutReader = TRUE
    /\ prd = 0
    /\ ppc = "spawn"
    /\ pcur = NoEv
    /\ pwrote = <<>>
    /\ presult = NoResult
    /\ slock = "free"
    /\ spos = [p \in Producers |-> "idle"]
    /\ sn = [p \in Producers |-> 0]
    /\ sbytes = <<>>

NoValue == "none"
Init ==
    /\ Idle
    /\ fin = NoValue /\ fmid = NoValue /\ fout = NoValue /\ fpc = "none"

\* ------------------------------------------------------------------ send
\* send(): lock stdout, serialize, write_all(line), write_all("\n"), flush.
\* A write to a pipe fails exactly when its read end is closed (EPIPE).
SendOk == woutReader
Send(msg) == IF SendOk THEN Append(wout, msg) ELSE wout

\* send() step by step.  A message is written as the chunks of its line
\* (write_all may need more than one write) and then the newline.
Parts == <<"a", "b", "nl">>
Chunk(p, i) == [task |-> p, msg |-> sn[p], part |-> Parts[i]]
PartAt(pos) == CASE pos = "w1" -> 1 [] pos = "w2" -> 2 [] pos = "nl" -> 3
AfterPart(pos) == CASE pos = "w1" -> "w2" [] pos = "w2" -> "nl" [] pos = "nl" -> "flush"

\* a send that writes without waiting for the mutex
LockFree_nolock == TRUE
\* send, line 634: stdout.lock().await is granted when no task holds the mutex
LockFree == slock = "free"

\* send, line 634: the mutex is acquired
SendLock(p) ==
    /\ spos[p] = "idle" /\ sn[p] < MaxSends
    /\ LockFree
    /\ slock' = p
    /\ spos' = [spos EXCEPT ![p] = "w1"]
    /\ sn' = [sn EXCEPT ![p] = @ + 1]
    /\ UNCHANGED <<wvars, avars, pipes, pvars, fvars, sbytes>>

\* send, lines 636-637: write_all(line), write_all("\n"); an error returns
\* through `?`, which drops the guard
SendWrite(p) ==
    /\ spos[p] \in {"w1", "w2", "nl"}
    /\ IF SendOk
       THEN /\ sbytes' = Append(sbytes, Chunk(p, PartAt(spos[p])))
            /\ spos' = [spos EXCEPT ![p] = AfterPart(@)]
            /\ slock' = slock
       ELSE /\ sbytes' = sbytes
            /\ spos' = [spos EXCEPT ![p] = "idle"]
            /\ slock' = IF slock = p THEN "free" ELSE slock
    /\ UNCHANGED <<wvars, avars, pipes, pvars, fvars, sn>>

\* send, lines 638-639: flush, Ok(()), and the guard is dropped
SendFlush(p) ==
    /\ spos[p] = "flush"
    /\ spos' = [spos EXCEPT ![p] = "idle"]
    /\ slock' = IF slock = p THEN "free" ELSE slock
    /\ UNCHANGED <<wvars, avars, pipes, pvars, fvars, sn, sbytes>>


\* ------------------------------------------------------------- main task
Fail == mpc' = "failed"

\* a first-line match that takes any message that parses as the request
IsWorkRequest_anyvariant(line) == line.type # "malformed"
\* run, lines 61-64: the arm AgentTreeIpcMessage::WorkRequest(req) => req
IsWorkRequest(line) == line.type = "work_request"

\* run, lines 46-122: the first line must be a work_request; then stdin_task
\* is spawned.  A line that does not parse leaves run through `?`.
MainFirstLine ==
    /\ alive /\ mpc = "first_line"
    /\ \/ /\ win # <<>>
          /\ win' = Tail(win)
          /\ LET line == Head(win) IN
             CASE IsWorkRequest(line) ->
                    /\ mpc' = "git_root" /\ dpc' = "run" /\ wout' = wout
               [] line.type = "malformed" ->
                    /\ Fail /\ dpc' = dpc /\ wout' = wout
               [] OTHER ->
                    /\ Fail /\ dpc' = dpc
                    /\ wout' = Send(ErrorMsg("expected work_request"))
       \/ /\ win = <<>> /\ winClosed
          /\ wout' = Send(ErrorMsg("missing WorkRequest"))
          /\ Fail
          /\ UNCHANGED <<win, dpc>>
    /\ UNCHANGED <<alive, exitCode, summary, snapshot, spc, cancel, bcast, drain, rx,
                   pending, commands, taken, submitted, dlog, avars, winClosed, nenv,
                   woutReader, pvars, svars, fvars>>

\* run, lines 124-126: git_repo_root
MainGitRoot ==
    /\ alive /\ mpc = "git_root"
    /\ \/ mpc' = "worktree"
       \/ Fail
    /\ UNCHANGED <<alive, exitCode, summary, snapshot, dpc, spc, cancel, bcast, drain, rx,
                   pending, commands, taken, submitted, dlog, avars, pipes, pvars, svars, fvars>>

\* run, lines 128-130: create_worktree
MainWorktree ==
    /\ alive /\ mpc = "worktree"
    /\ \/ mpc' = "start_thread"
       \/ Fail
    /\ UNCHANGED <<alive, exitCode, summary, snapshot, dpc, spc, cancel, bcast, drain, rx,
                   pending, commands, taken, submitted, dlog, avars, pipes, pvars, svars, fvars>>

\* run, lines 151-157: subscribe_thread_created, then start_thread: the
\* creation of the L2 thread is broadcast to the subscription taken before it.
MainStartThread ==
    /\ alive /\ mpc = "start_thread"
    /\ \/ /\ mpc' = "log_started"
          /\ created' = {L2}
          /\ l2status' = "pending_init"
          /\ bcast' = Append(bcast, L2)
       \/ /\ Fail
          /\ UNCHANGED <<created, l2status, bcast>>
    /\ UNCHANGED <<alive, exitCode, summary, snapshot, dpc, spc, cancel, drain, rx,
                   pending, commands, taken, submitted, dlog, nev, pipes, pvars, svars, fvars>>

\* run, lines 161-222: the info log, then the supervisor is spawned
MainLogStarted ==
    /\ alive /\ mpc = "log_started"
    /\ wout' = Send(LogMsg("info", "L2 thread started"))
    /\ IF SendOk
       THEN mpc' = "submit_prompt" /\ spc' = "enum"
       ELSE Fail /\ spc' = spc
    /\ UNCHANGED <<alive, exitCode, summary, snapshot, dpc, cancel, bcast, drain, rx,
                   pending, commands, taken, submitted, dlog, avars, win, winClosed, nenv,
                   woutReader, pvars, svars, fvars>>

\* run, lines 224-234: the prompt is submitted; the thread starts its turn
MainSubmitPrompt ==
    /\ alive /\ mpc = "submit_prompt"
    /\ mpc' = "wait"
    /\ l2status' = "running"
    /\ UNCHANGED <<alive, exitCode, summary, snapshot, dpc, spc, cancel, bcast, drain, rx,
                   pending, commands, taken, submitted, dlog, created, nev, pipes, pvars, svars, fvars>>

\* wait_for_final_message returns (a poll that sees a non-final status
\* changes nothing), then event_loop_cancel.cancel()
MainWaitDone ==
    /\ alive /\ mpc = "wait"
    /\ is_final_status(l2status)
    /\ summary' = FinalSummary(l2status)
    /\ cancel' = TRUE
    /\ mpc' = "await_sup"
    /\ UNCHANGED <<alive, exitCode, snapshot, dpc, spc, bcast, drain, rx,
                   pending, commands, taken, submitted, dlog, avars, pipes, pvars, svars, fvars>>

\* a join that also waits for every per-thread drain and for the dispatcher
Joined_alltasks ==
    /\ spc = "done"
    /\ \A d \in DrainIds : drain[d].pc \in {"none", "exit"}
    /\ dpc # "run"
\* run, line 241: `let _ = drain_task.await`, the supervisor's JoinHandle
Joined == spc = "done"

\* run, lines 241-246: drain_task.await returns once the supervisor has
\* ended; generate_worktree_diff; then the command log is cloned
MainDiff ==
    /\ alive /\ mpc = "await_sup"
    /\ Joined
    /\ \/ mpc' = "result" /\ snapshot' = commands
       \/ Fail /\ snapshot' = snapshot
    /\ UNCHANGED <<alive, exitCode, summary, dpc, spc, cancel, bcast, drain, rx,
                   pending, commands, taken, submitted, dlog, avars, pipes, pvars, svars, fvars>>

\* run, lines 248-259: the worker_result is sent; drop(stdin_task) detaches
\* the dispatcher, it does not stop it
MainSendResult ==
    /\ alive /\ mpc = "result"
    /\ wout' = Send(WorkerResultMsg(summary, snapshot))
    /\ IF SendOk THEN mpc' = "returned" ELSE Fail
    /\ UNCHANGED <<alive, exitCode, summary, snapshot, dpc, spc, cancel, bcast, drain, rx,
                   pending, commands, taken, submitted, dlog, avars, win, winClosed, nenv,
                   woutReader, pvars, svars, fvars>>

\* run has returned: the runtime shuts down and the process exits, closing
\* its ends of both pipes; every task stops wherever it is
WorkerExit ==
    /\ alive /\ mpc \in {"returned", "failed"}
    /\ alive' = FALSE
    /\ exitCode' = IF mpc = "returned" THEN "success" ELSE "failure"
    /\ UNCHANGED <<mpc, summary, snapshot, dpc, spc, cancel, bcast, drain, rx,
                   pending, commands, taken, submitted, dlog, avars, pipes, pvars, svars, fvars>>

MainNext ==
    \/ MainFirstLine \/ MainGitRoot \/ MainWorktree \/ MainStartThread
    \/ MainLogStarted \/ MainSubmitPrompt \/ MainWaitDone
    \/ MainDiff \/ MainSendResult \/ WorkerExit


\* -------------------------------------------------- request-key registry
\* The sender stored in a registry is named by the drain that holds the
\* receiver and the event the handler was called for.
Chan(d, n) == [d |-> d, n |-> n]
\* the receiver of sender c still exists and has no value yet
Receiving(c) == drain[c.d].ev.n = c.n /\ rx[c.d] = "wait"

\* HashMap::insert(key, tx): an entry under the same key is replaced
RegistryInsert(reg, key, c) == (key :> c) @@ reg
\* HashMap::remove(&key)
RegistryRemove(reg, key) == [k \in (DOMAIN reg) \ {key} |-> reg[k]]

\* a deliver_* that looks the sender up without removing it
DeliverRegistry_get(reg, key) == reg
\* deliver_user_input_answer / deliver_exec_approval_answer /
\* deliver_patch_approval_answer: the registry of the answer's kind
DeliverRegistry(reg, key) ==
    IF key \in DOMAIN reg THEN RegistryRemove(reg, key) ELSE reg
\* a deliver_* that completes whichever slot of the registry is waiting
DeliverRx_anykey(reg, key, v) ==
    [d \in DrainIds |->
        IF \E k \in DOMAIN reg : reg[k].d = d /\ Receiving(reg[k]) THEN v ELSE rx[d]]
\* ... and the receivers: tx.send(value), its result ignored
DeliverRx(reg, key, v) ==
    IF key \in DOMAIN reg /\ Receiving(reg[key])
    THEN [rx EXCEPT ![reg[key].d] = v]
    ELSE rx

\* ------------------------------------------------------- input dispatcher
\* a dispatcher that carries on after echoing an inbound error
AfterError_continue(ok) == IF ok THEN "run" ELSE "failed"
\* stdin_task, lines 104-107: `send(..Error(err)).await?; break;`
AfterError(ok) == IF ok THEN "done" ELSE "failed"

\* stdin_task, lines 89-121: one line is read and handled
Dispatch ==
    /\ alive /\ dpc = "run"
    /\ \/ /\ win # <<>>
          /\ win' = Tail(win)
          /\ LET line == Head(win) IN
             CASE line.type \in AnswerTypes ->
                    LET kind == KindOfAnswer(line.type) IN
                    /\ pending' = [pending EXCEPT
                                     ![kind] = DeliverRegistry(@, line.request_key)]
                    /\ rx' = DeliverRx(pending[kind], line.request_key, line.value)
                    /\ dlog' = Append(dlog, [line |-> line,
                                 hit |-> line.request_key \in DOMAIN pending[kind]])
                    /\ UNCHANGED <<dpc, wout>>
               [] line.type = "log" ->
                    UNCHANGED <<dpc, wout, pending, rx, dlog>>
               [] line.type = "error" ->
                    /\ wout' = Send(ErrorMsg(line.message))
                    /\ dpc' = AfterError(SendOk)
                    /\ UNCHANGED <<pending, rx, dlog>>
               [] line.type = "malformed" ->
                    /\ dpc' = "failed"
                    /\ UNCHANGED <<wout, pending, rx, dlog>>
               [] OTHER ->
                    /\ wout' = Send(LogMsg("warn", <<"ignored IPC message", line.type>>))
                    /\ dpc' = IF SendOk THEN dpc ELSE "failed"
                    /\ UNCHANGED <<pending, rx, dlog>>
       \/ /\ win = <<>> /\ winClosed
          /\ dpc' = "eof"
          /\ UNCHANGED <<win, wout, pending, rx, dlog>>
    /\ UNCHANGED <<alive, exitCode, mpc, summary, snapshot, spc, cancel, bcast, drain,
                   commands, taken, submitted, avars, winClosed, nenv, woutReader, pvars, svars, fvars>>

\* ------------------------------------------------------- drain supervisor
\* ThreadManager::get_thread: a removed thread is unknown
GetThreadOk(t) == ~(t = L2 /\ l2status = "not_found")
Spawned(d) == [pc |-> "idle", ev |-> NoEv]

\* drain_task, lines 185-199: a drain for every existing thread
SupEnumerate ==
    /\ alive /\ spc = "enum"
    /\ drain' = [d \in DrainIds |->
                    IF d[2] = "enum" /\ d[1] \in created /\ GetThreadOk(d[1])
                    THEN Spawned(d) ELSE drain[d]]
    /\ spc' = "loop"
    /\ UNCHANGED <<alive, exitCode, mpc, summary, snapshot, dpc, cancel, bcast, rx,
                   pending, commands, taken, submitted, dlog, avars, pipes, pvars, svars, fvars>>

\* drain_task, lines 204-218: a drain for a thread whose creation is received
SupRecv ==
    /\ alive /\ spc = "loop"
    /\ bcast # <<>>
    /\ bcast' = Tail(bcast)
    /\ LET d == <<Head(bcast), "bcast">> IN
       drain' = IF GetThreadOk(d[1]) THEN [drain EXCEPT ![d] = Spawned(d)] ELSE drain
    /\ UNCHANGED <<alive, exitCode, mpc, summary, snapshot, dpc, spc, cancel, rx,
                   pending, commands, taken, submitted, dlog, avars, pipes, pvars, svars, fvars>>

\* drain_task, line 203: cancel.cancelled() => break
SupCancel ==
    /\ alive /\ spc = "loop"
    /\ cancel
    /\ spc' = "done"
    /\ UNCHANGED <<alive, exitCode, mpc, summary, snapshot, dpc, cancel, bcast, drain, rx,
                   pending, commands, taken, submitted, dlog, avars, pipes, pvars, svars, fvars>>

\* ------------------------------------------------------- per-thread drain
\* CodexThread::submit: accepted while the thread runs its turn; a thread
\* that has ended may refuse it
SubmitResults(t) == IF t = L2 /\ l2status = "running" THEN {TRUE} ELSE {TRUE, FALSE}

\* the receivers after HashMap::insert dropped the sender it replaced
InsertRx(reg, key, d) ==
    [dd \in DrainIds |->
        IF dd = d THEN "wait"
        ELSE IF key \in DOMAIN reg /\ reg[key].d = dd /\ Receiving(reg[key])
             THEN "closed"
             ELSE rx[dd]]

\* The event stream of a thread: an event reaches a drain when the thread
\* has been given its prompt (the L2 thread) or exists (a sub-agent).
EventKinds == Kinds \cup {"exec_command_end"}
Emits(t) == /\ t \in created
            /\ t = L2 => l2status \in {"running"} \cup FinalStatuses

\* The events explored, up to renaming: event ids are interchangeable, and so
\* are the three interactive kinds (three handlers of the same shape, three
\* registries, three arms in the parent), so the first event uses e1 and a
\* new kind is the first unused one.
NewEvent(kind, id) ==
    /\ kind \notin Kinds => id = "e1"
    /\ id = "e2" => nev >= 1
    /\ kind = "exec_approval" => nev >= 1
    /\ kind = "patch_approval" => nev >= 2

\* spawn_thread_event_drain, lines 306-378: thread.next_event() wins the
\* select and yields the thread's next event; an interactive event enters
\* its handler, which inserts the sender (handle_*, lines 392-394, 427-429,
\* 459-461)
DrainTake(d, kind, id) ==
    /\ alive /\ drain[d].pc = "idle"
    /\ nev < MaxEvents /\ Emits(d[1])
    /\ NewEvent(kind, id)
    /\ LET t == d[1]
           ev == [n |-> nev + 1, kind |-> kind, id |-> id]
           key == RequestKey(t, ev.id)
       IN /\ nev' = nev + 1
          /\ taken' = [taken EXCEPT ![t] = Append(@, ev)]
          /\ CASE ev.kind \in Kinds ->
                    /\ pending' = [pending EXCEPT
                                     ![ev.kind] = RegistryInsert(@, key, Chan(d, ev.n))]
                    /\ rx' = InsertRx(pending[ev.kind], key, d)
                    /\ drain' = [drain EXCEPT ![d] = [pc |-> "send", ev |-> ev]]
                    /\ UNCHANGED commands
               [] ev.kind = "exec_command_end" ->
                    /\ commands' = Append(commands, [ev |-> ev.n, thread |-> t])
                    /\ UNCHANGED <<pending, rx, drain>>
    /\ UNCHANGED <<alive, exitCode, mpc, summary, snapshot, dpc, spc, cancel, bcast,
                   submitted, dlog, created, l2status, pipes, pvars, svars, fvars>>

\* spawn_thread_event_drain, line 377: any other event is ignored
DrainIgnore(d) ==
    /\ alive /\ drain[d].pc = "idle"
    /\ Emits(d[1])
    /\ UNCHANGED vars

\* a drain that lets the handler's error end its task
AfterHandler_propagated(ok) == IF ok THEN "idle" ELSE "exit"
\* spawn_thread_event_drain, `if let Err(err) = handle_*(..).await`: where
\* the drain goes when the handler has returned
AfterHandler(ok) == IF ok THEN "idle" ELSE "logerr"

\* handle_*: send(Need*) and `?`: on failure the handler returns, dropping
\* the receiver; the sender stays in the registry
DrainSend(d) ==
    /\ alive /\ drain[d].pc = "send"
    /\ LET ev == drain[d].ev IN
       wout' = Send(NeedMsg(ev.kind, RequestKey(d[1], ev.id), ev.n))
    /\ IF SendOk
       THEN /\ drain' = [drain EXCEPT ![d].pc = "await"]
            /\ rx' = rx
       ELSE /\ drain' = [drain EXCEPT ![d] = [pc |-> AfterHandler(FALSE), ev |-> NoEv]]
            /\ rx' = [rx EXCEPT ![d] = "none"]
    /\ UNCHANGED <<alive, exitCode, mpc, summary, snapshot, dpc, spc, cancel, bcast,
                   pending, commands, taken, submitted, dlog, avars, win, winClosed, nenv,
                   woutReader, pvars, svars, fvars>>

\* what rx.await yields once it is ready
Received(d, kind) == IF rx[d] = "closed" THEN DefaultAnswer(kind) ELSE rx[d]
\* Op::UserInputAnswer / Op::ExecApproval / Op::PatchApproval
SubmitOp(ev, v, ok) == [ev |-> ev.n, kind |-> ev.kind, id |-> ev.id, value |-> v, ok |-> ok]

\* handle_*: rx.await is ready (a value, or the sender was dropped), then
\* thread.submit(answer) and `?`
DrainSubmit(d, ok) ==
    /\ alive /\ drain[d].pc = "await"
    /\ rx[d] \notin {"wait", "none"}
    /\ ok \in SubmitResults(d[1])
    /\ LET t == d[1]
           ev == drain[d].ev
       IN /\ submitted' = [submitted EXCEPT
                             ![t] = Append(@, SubmitOp(ev, Received(d, ev.kind), ok))]
          /\ drain' = [drain EXCEPT
                         ![d] = [pc |-> AfterHandler(ok), ev |-> NoEv]]
    /\ rx' = [rx EXCEPT ![d] = "none"]
    /\ UNCHANGED <<alive, exitCode, mpc, summary, snapshot, dpc, spc, cancel, bcast,
                   pending, commands, taken, dlog, avars, pipes, pvars, svars, fvars>>

\* spawn_thread_event_drain: the handler failed: one error log, its result
\* ignored (let _ = send(..))
DrainLogErr(d) ==
    /\ alive /\ drain[d].pc = "logerr"
    /\ wout' = Send(LogMsg("error", "handler failed"))
    /\ drain' = [drain EXCEPT ![d].pc = "idle"]
    /\ UNCHANGED <<alive, exitCode, mpc, summary, snapshot, dpc, spc, cancel, bcast, rx,
                   pending, commands, taken, submitted, dlog, avars, win, winClosed, nenv,
                   woutReader, pvars, svars, fvars>>

\* spawn_thread_event_drain, line 307: cancel.cancelled() wins the select
DrainCancel(d) ==
    /\ alive /\ drain[d].pc = "idle"
    /\ cancel
    /\ drain' = [drain EXCEPT ![d].pc = "exit"]
    /\ UNCHANGED <<alive, exitCode, mpc, summary, snapshot, dpc, spc, cancel, bcast, rx,
                   pending, commands, taken, submitted, dlog, avars, pipes, pvars, svars, fvars>>

DrainNext ==
    \E d \in DrainIds :
        \/ \E kind \in EventKinds, id \in EventIds : DrainTake(d, kind, id)
        \/ DrainIgnore(d)
        \/ DrainSend(d) \/ \E ok \in BOOLEAN : DrainSubmit(d, ok)
        \/ DrainLogErr(d) \/ DrainCancel(d)

\* ----------------------------------------------------------- agent threads
\* The agent threads are the environment of the worker: the L2 thread
\* creates sub-agents and reaches a final status.
AgentSpawn(t) ==
    /\ alive /\ l2status = "running"
    /\ t \notin created /\ spc # "enum"
    /\ created' = created \cup {t}
    /\ bcast' = Append(bcast, t)
    /\ UNCHANGED <<alive, exitCode, mpc, summary, snapshot, dpc, spc, cancel, drain, rx,
                   pending, commands, taken, submitted, dlog, l2status, nev, pipes,
                   pvars, svars, fvars>>

AgentFinish(s) ==
    /\ alive /\ l2status = "running"
    /\ l2status' = s
    /\ UNCHANGED <<wvars, created, nev, pipes, pvars, svars, fvars>>

\* the final status the L2 thread takes in the runs explored
AgentFinals == {"completed_some"}
AgentNext ==
    \/ \E t \in Threads : AgentSpawn(t)
    \/ \E s \in AgentFinals : AgentFinish(s)

WorkerNext == MainNext \/ Dispatch \/ SupEnumerate \/ SupRecv \/ SupCancel \/ DrainNext


\* ------------------------------------------------ parent: delegate::handle
\* ToolOutput::Function{content, success: Some(true)}
Success(result) == [kind |-> "success", content |-> result]
\* FunctionCallError::RespondToModel(format!(..))
RespondToModel(text) == [kind |-> "respond_to_model", text |-> text]
\* FunctionCallError::Fatal(..)
Fatal(text) == [kind |-> "fatal", text |-> text]
WorkerErrorText(message) == <<"agent_tree worker error: ", message>>
UnexpectedExitText(status) == <<"agent_tree worker exited unexpectedly (status=", status, ")">>

\* delegate::handle returns: child_stdin and the stdout reader are dropped
\* (the child is not killed)
PReturn(result) ==
    /\ presult' = result
    /\ ppc' = "done"
    /\ winClosed' = TRUE
    /\ woutReader' = FALSE

\* write_msg: a write to the child's stdin fails once the child has exited
WriteOk == alive

\* delegate::handle, lines 128-134: the work_request is written
PWriteWorkRequest ==
    /\ ppc = "spawn"
    /\ IF WriteOk
       THEN /\ win' = Append(win, WorkRequestMsg)
            /\ pwrote' = Append(pwrote, WorkRequestMsg)
            /\ ppc' = "read"
            /\ UNCHANGED <<presult, winClosed, woutReader>>
       ELSE /\ PReturn(Fatal("failed to write to worker stdin"))
            /\ UNCHANGED <<win, pwrote>>
    /\ UNCHANGED <<wvars, avars, svars, fvars, nenv, wout, prd, pcur>>

\* a match whose Error arm is handled like Log
Outcome_errorignored(msg) ==
    CASE msg.type = "malformed" -> Fatal("failed to parse worker IPC message")
      [] msg.type = "worker_result" -> Success(msg)
      [] OTHER -> NoResult
\* delegate::handle, lines 154-244: what the match returns for a message
\* that ends the read loop (a parse failure, WorkerResult, Error); Log,
\* WorkRequest and the three answers end nothing
Outcome(msg) ==
    CASE msg.type = "malformed" -> Fatal("failed to parse worker IPC message")
      [] msg.type = "worker_result" -> Success(msg)
      [] msg.type = "error" -> RespondToModel(WorkerErrorText(msg.message))
      [] OTHER -> NoResult

\* an unexpected-exit error that leaves the status out
OnEof_nostatus == RespondToModel(<<"agent_tree worker exited unexpectedly">>)
\* delegate::handle, lines 246-253: next_line() yields None only when the
\* child's end of the pipe is closed and every line was read; child.wait()
OnEof == RespondToModel(UnexpectedExitText(exitCode))

\* delegate::handle, lines 152-253: lines.next_line() and the match on the
\* message
PReadLine ==
    /\ ppc = "read"
    /\ \/ /\ prd < Len(wout)
          /\ prd' = prd + 1
          /\ LET msg == wout[prd + 1] IN
             CASE msg.type \in NeedTypes ->
                    /\ ppc' = "ask"
                    /\ pcur' = msg
                    /\ UNCHANGED <<presult, winClosed, woutReader>>
               [] Outcome(msg) # NoResult ->
                    /\ PReturn(Outcome(msg))
                    /\ UNCHANGED pcur
               [] OTHER ->
                    UNCHANGED <<ppc, pcur, presult, winClosed, woutReader>>
       \/ /\ prd = Len(wout) /\ ~alive
          /\ PReturn(OnEof)
          /\ UNCHANGED <<prd, pcur>>
    /\ UNCHANGED <<wvars, avars, svars, fvars, win, nenv, wout, pwrote>>

\* the answers the user gives in the runs explored
SessionAnswers(kind) == Values(kind) \ {DefaultAnswer(kind)}

\* an answer that names a fixed key rather than the key of the need
AnswerFor_fixedkey(need, v) ==
    AnswerMsg(KindOfNeed(need.type), RequestKey(L2, "e1"), v)
\* delegate::handle, lines 170-173, 191-194, 212-215: the answer message
\* built for a Need* message
AnswerFor(need, v) == AnswerMsg(KindOfNeed(need.type), need.request_key, v)

\* delegate::handle, lines 161-221: the session answers (request_user_input,
\* request_command_approval, request_patch_approval), then write_msg(answer)
PAnswer(v) ==
    /\ ppc = "ask"
    /\ LET kind == KindOfNeed(pcur.type)
           answer == AnswerFor(pcur, v)
       IN /\ v \in SessionAnswers(kind)
          /\ IF WriteOk
             THEN /\ win' = Append(win, answer)
                  /\ pwrote' = Append(pwrote, answer)
                  /\ ppc' = "read"
                  /\ UNCHANGED <<presult, winClosed, woutReader>>
             ELSE /\ PReturn(Fatal("failed to write to worker stdin"))
                  /\ UNCHANGED <<win, pwrote>>
    /\ pcur' = NoEv
    /\ UNCHANGED <<wvars, avars, svars, fvars, nenv, wout, prd>>

AllValues == UNION {Values(k) : k \in Kinds}
ParentNext == PWriteWorkRequest \/ PReadLine \/ \E v \in AllValues : PAnswer(v)

\* ------------------------------------------- the worker with any peer
\* Lines a peer can write to the worker's stdin
AnsweredKeys == {wout[i].request_key : i \in {j \in 1..Len(wout) : wout[j].type \in NeedTypes}}
EnvLines ==
    {WorkRequestMsg, LogMsg("info", "peer"), ErrorMsg("peer error"), Malformed,
     NeedMsg("user_input", RequestKey(L2, "e1"), 0), WorkerResultMsg("peer", <<>>)}
    \cup {AnswerMsg(k, key, v) : k \in Kinds, key \in AnsweredKeys, v \in AllValues}

EnvWrite(line) ==
    /\ alive /\ ~winClosed /\ nenv < MaxEnvLines + 1
    /\ win = <<>>
    /\ line.type \in AnswerTypes =>
          /\ line.value \in SessionAnswers(KindOfAnswer(line.type))
          /\ line.type = "patch_approval_answer" => nev >= MaxEvents
    /\ win' = Append(win, line)
    /\ nenv' = nenv + 1
    /\ UNCHANGED <<wvars, avars, winClosed, wout, woutReader, pvars, svars, fvars>>

\* the peer closes its end of the worker's stdin
EnvCloseStdin ==
    /\ ~winClosed /\ nenv < MaxEnvLines + 1
    /\ winClosed' = TRUE
    /\ nenv' = nenv + 1
    /\ UNCHANGED <<wvars, avars, win, wout, woutReader, pvars, svars, fvars>>

\* the peer closes its end of the worker's stdout
EnvCloseStdout ==
    /\ woutReader /\ nenv < MaxEnvLines + 1
    /\ woutReader' = FALSE
    /\ nenv' = nenv + 1
    /\ UNCHANGED <<wvars, avars, win, winClosed, wout, pvars, svars, fvars>>

EnvNext == (\E line \in EnvLines : EnvWrite(line)) \/ EnvCloseStdin \/ EnvCloseStdout

\* ------------------------------------------- the parent with any child
\* Lines a child can write to its stdout
ChildKeys == {RequestKey(L2, "e1"), RequestKey("T2", "e2")}
ChildLines ==
    {WorkRequestMsg, LogMsg("info", "child"), ErrorMsg("child error"), Malformed,
     WorkerResultMsg("msg", <<>>), AnswerMsg("exec_approval", RequestKey(L2, "e1"), "approved")}
    \cup {NeedMsg(k, key, 1) : k \in Kinds, key \in ChildKeys}

ChildWrite(line) ==
    /\ alive /\ woutReader /\ nenv < MaxChildLines
    /\ wout' = Append(wout, line)
    /\ nenv' = nenv + 1
    /\ UNCHANGED <<wvars, avars, win, winClosed, woutReader, pvars, svars, fvars>>

ChildExit(status) ==
    /\ alive
    /\ alive' = FALSE
    /\ exitCode' = status
    /\ UNCHANGED <<mpc, summary, snapshot, dpc, spc, cancel, bcast, drain, rx, pending,
                   commands, taken, submitted, dlog, avars, pipes, pvars, svars, fvars>>

ChildNext ==
    \/ \E line \in ChildLines : ChildWrite(line)
    \/ \E status \in {"success", "failure"} : ChildExit(status)

\* ---------------------------------------------------------------- IPC codec
\* serde_json values
JNull == [j |-> "null"]
JStr(x) == [j |-> "string", v |-> x]
JNum(x) == [j |-> "number", v |-> x]
JArr(xs) == [j |-> "array", v |-> xs]
JObj(f) == [j |-> "object", v |-> f]
\* Option<T>: None is the empty sequence, Some(x) the sequence of x
None == <<>>
Some(x) == <<x>>
DecodeError == [variant |-> "error"]

\* the variants of AgentTreeIpcMessage, in declaration order
VariantNames ==
    {"WorkRequest", "NeedUserInput", "UserInputAnswer", "NeedExecApproval",
     "ExecApprovalAnswer", "NeedPatchApproval", "PatchApprovalAnswer",
     "WorkerResult", "Log", "Error"}
LogLevels == {"Debug", "Info", "Warn", "Error"}

\* #[serde(rename_all = "snake_case")] on the identifiers it is applied to
SnakeCase(name) ==
    CASE name = "WorkRequest" -> "work_request"
      [] name = "NeedUserInput" -> "need_user_input"
      [] name = "UserInputAnswer" -> "user_input_answer"
      [] name = "NeedExecApproval" -> "need_exec_approval"
      [] name = "ExecApprovalAnswer" -> "exec_approval_answer"
      [] name = "NeedPatchApproval" -> "need_patch_approval"
      [] name = "PatchApprovalAnswer" -> "patch_approval_answer"
      [] name = "WorkerResult" -> "worker_result"
      [] name = "Log" -> "log"
      [] name = "Error" -> "error"
      [] name = "Debug" -> "debug"
      [] name = "Info" -> "info"
      [] name = "Warn" -> "warn"

\* the fields of each variant's payload struct and their types; "Foreign"
\* stands for the codex_protocol types (RequestUserInputArgs,
\* RequestUserInputResponse, ExecApprovalRequestEvent,
\* ApplyPatchApprovalRequestEvent, ReviewDecision)
FieldTypes(V) ==
    CASE V = "WorkRequest" ->
            [task |-> "String", context |-> "Option<String>",
             tests |-> "Vec<String>", base_ref |-> "Option<String>"]
      [] V = "NeedUserInput" -> [request_key |-> "AgentTreeRequestKey", args |-> "Foreign"]
      [] V = "UserInputAnswer" -> [request_key |-> "AgentTreeRequestKey", response |-> "Foreign"]
      [] V = "NeedExecApproval" -> [request_key |-> "AgentTreeRequestKey", event |-> "Foreign"]
      [] V = "ExecApprovalAnswer" -> [request_key |-> "AgentTreeRequestKey", decision |-> "Foreign"]
      [] V = "NeedPatchApproval" -> [request_key |-> "AgentTreeRequestKey", event |-> "Foreign"]
      [] V = "PatchApprovalAnswer" -> [request_key |-> "AgentTreeRequestKey", decision |-> "Foreign"]
      [] V = "WorkerResult" ->
            [summary |-> "String", diff |-> "String",
             commands |-> "Vec<WorkerCommandResult>", worktree_path |-> "PathBuf"]
      [] V = "Log" -> [level |-> "WorkerLogLevel", message |-> "String"]
      [] V = "Error" -> [message |-> "String"]

\* Serialize of a WorkerCommandResult
EncCommand(c) ==
    JObj([command |-> JStr(c.command),
          exit_code |-> IF c.exit_code = None THEN JNull ELSE JNum(c.exit_code[1]),
          output |-> JStr(c.output)])
\* Deserialize of a WorkerCommandResult
DecCommand(jv) ==
    [command |-> jv.v.command.v,
     exit_code |-> IF jv.v.exit_code.j = "null" THEN None ELSE Some(jv.v.exit_code.v),
     output |-> jv.v.output.v]

\* Serialize, by the type of the field
EncValue(ty, x) ==
    CASE ty \in {"String", "PathBuf"} -> JStr(x)
      [] ty = "Option<String>" -> IF x = None THEN JNull ELSE JStr(x[1])
      [] ty = "Vec<String>" -> JArr([i \in 1..Len(x) |-> JStr(x[i])])
      [] ty = "AgentTreeRequestKey" ->
            JObj([thread_id |-> JStr(x.thread_id), event_id |-> JStr(x.event_id)])
      [] ty = "WorkerLogLevel" -> JStr(SnakeCase(x))
      [] ty = "Vec<WorkerCommandResult>" -> JArr([i \in 1..Len(x) |-> EncCommand(x[i])])
      [] ty = "Foreign" -> [j |-> "foreign", v |-> x]

\* the JSON value has the shape the type's Deserialize accepts
Accepts(ty, jv) ==
    CASE ty \in {"String", "PathBuf"} -> jv.j = "string"
      [] ty = "Option<String>" -> jv.j \in {"null", "string"}
      [] ty = "Vec<String>" -> jv.j = "array" /\ \A i \in 1..Len(jv.v) : jv.v[i].j = "string"
      [] ty = "AgentTreeRequestKey" -> jv.j = "object"
      [] ty = "WorkerLogLevel" ->
            jv.j = "string" /\ \E l \in LogLevels : SnakeCase(l) = jv.v
      [] ty = "Vec<WorkerCommandResult>" -> jv.j = "array"
      [] ty = "Foreign" -> jv.j = "foreign"

\* Deserialize, by the type of the field
DecValue(ty, jv) ==
    CASE ty \in {"String", "PathBuf"} -> jv.v
      [] ty = "Option<String>" -> IF jv.j = "null" THEN None ELSE Some(jv.v)
      [] ty = "Vec<String>" -> [i \in 1..Len(jv.v) |-> jv.v[i].v]
      [] ty = "AgentTreeRequestKey" ->
            [thread_id |-> jv.v.thread_id.v, event_id |-> jv.v.event_id.v]
      [] ty = "WorkerLogLevel" -> CHOOSE l \in LogLevels : SnakeCase(l) = jv.v
      [] ty = "Vec<WorkerCommandResult>" -> [i \in 1..Len(jv.v) |-> DecCommand(jv.v[i])]
      [] ty = "Foreign" -> jv.v

\* #[serde(default)] on context, tests, base_ref; a missing Option is None
HasDefault(ty) == ty \in {"Option<String>", "Vec<String>"}
DefaultOf(ty) == <<>>

\* an externally tagged encoding: the payload nested under the variant's name
Inline_nested(tag, fields) == (tag :> JObj(fields))
\* #[serde(tag = "type")]: the tag and the payload's fields in one object
Inline(tag, fields) == ("type" :> JStr(tag)) @@ fields

\* serde_json::to_string(&msg)
Encode(msg) ==
    LET ft == FieldTypes(msg.variant) IN
    Inline(SnakeCase(msg.variant),
           [f \in DOMAIN ft |-> EncValue(ft[f], msg.payload[f])])

\* serde_json::from_str::<AgentTreeIpcMessage>(line)
Decode(obj) ==
    IF "type" \notin DOMAIN obj \/ obj["type"].j # "string"
         \/ \A V \in VariantNames : SnakeCase(V) # obj["type"].v
    THEN DecodeError
    ELSE LET V == CHOOSE W \in VariantNames : SnakeCase(W) = obj["type"].v
             ft == FieldTypes(V)
         IN IF \E f \in DOMAIN ft :
                  \/ f \notin DOMAIN obj /\ ~HasDefault(ft[f])
                  \/ f \in DOMAIN obj /\ ~Accepts(ft[f], obj[f])
            THEN DecodeError
            ELSE [variant |-> V,
                  payload |-> [f \in DOMAIN ft |->
                                 IF f \in DOMAIN obj THEN DecValue(ft[f], obj[f])
                                 ELSE DefaultOf(ft[f])]]

\* the messages explored: every variant, with payloads that take every shape
\* of every field (absent and present options, empty and longer vectors)
OptStrings == {None, Some(""), Some("c")}
CommandResults ==
    {[command |-> "cargo test", exit_code |-> e, output |-> "ok"] : e \in {None, Some(0), Some(1)}}
CodecInputs ==
    {[variant |-> "WorkRequest",
      payload |-> [task |-> "t", context |-> c, tests |-> ts, base_ref |-> b]] :
        c \in OptStrings, ts \in {<<>>, <<"a">>, <<"a", "b">>}, b \in {None, Some("HEAD")}}
    \cup {[variant |-> "NeedUserInput", payload |-> [request_key |-> k, args |-> x]] :
            k \in Keys, x \in {"args1", "args2"}}
    \cup {[variant |-> "UserInputAnswer", payload |-> [request_key |-> k, response |-> x]] :
            k \in Keys, x \in Values("user_input")}
    \cup {[variant |-> "NeedExecApproval", payload |-> [request_key |-> k, event |-> x]] :
            k \in Keys, x \in {"exec1", "exec2"}}
    \cup {[variant |-> "ExecApprovalAnswer", payload |-> [request_key |-> k, decision |-> x]] :
            k \in Keys, x \in Values("exec_approval")}
    \cup {[variant |-> "NeedPatchApproval", payload |-> [request_key |-> k, event |-> x]] :
            k \in Keys, x \in {"patch1", "patch2"}}
    \cup {[variant |-> "PatchApprovalAnswer", payload |-> [request_key |-> k, decision |-> x]] :
            k \in Keys, x \in Values("patch_approval")}
    \cup {[variant |-> "WorkerResult",
           payload |-> [summary |-> sm, diff |-> df, commands |-> cs, worktree_path |-> "/wt"]] :
            sm \in {"", "msg"}, df \in {"", "diff"},
            cs \in {<<>>} \cup {<<c>> : c \in CommandResults}
                   \cup {<<c1, c2>> : c1 \in CommandResults, c2 \in CommandResults}}
    \cup {[variant |-> "Log", payload |-> [level |-> l, message |-> t]] :
            l \in LogLevels, t \in {"", "text"}}
    \cup {[variant |-> "Error", payload |-> [message |-> t]] : t \in {"", "text"}}

CodecInit ==
    /\ Idle
    /\ fin \in CodecInputs
    /\ fmid = NoValue /\ fout = NoValue /\ fpc = "in"

CodecEncode ==
    /\ fpc = "in"
    /\ fmid' = Encode(fin)
    /\ fpc' = "encoded"
    /\ UNCHANGED <<wvars, avars, pipes, pvars, svars, fin, fout>>

CodecDecode ==
    /\ fpc = "encoded"
    /\ fout' = Decode(fmid)
    /\ fpc' = "decoded"
    /\ UNCHANGED <<wvars, avars, pipes, pvars, svars, fin, fmid>>

\* ------------------------------------------------------------------ framing
MaxFrameMsgs == 2
NL == "\n"
\* messages after which both read loops keep reading (a log line, an answer
\* or a need)
FrameMsgs == {"m1", "m2"}
Readers == {"stdin_task", "delegate"}
\* the text of an encoding, character by character: an opening brace, the
\* body, a closing brace; serde_json::to_string never emits a newline
Text(msg) == <<"{", msg, "}">>
\* send / write_msg: the encoding, then a newline
Framed_line(msg) == Text(msg) \o <<NL>>
RECURSIVE Stream(_)
Stream(msgs) == IF msgs = <<>> THEN <<>> ELSE Framed_line(Head(msgs)) \o Stream(Tail(msgs))
\* what may follow the last newline when the writer stops
Tails == {<<>>, <<"{">>} \cup {<<"{", x>> : x \in FrameMsgs} \cup {Text(x) : x \in FrameMsgs}
SeqsUpTo(S, n) == UNION {[1..k -> S] : k \in 0..n}

\* Lines::next_line on a non-empty buffer: up to the first newline, which is
\* stripped, or, when there is none, everything up to EOF
NextLine(buf) ==
    IF \E i \in 1..Len(buf) : buf[i] = NL
    THEN LET i == CHOOSE k \in 1..Len(buf) : buf[k] = NL /\ \A j \in 1..(k - 1) : buf[j] # NL
         IN [line |-> SubSeq(buf, 1, i - 1), rest |-> SubSeq(buf, i + 1, Len(buf))]
    ELSE [line |-> buf, rest |-> <<>>]

\* serde_json::from_str on a line
ParseOk(line) == \E x \in FrameMsgs : line = Text(x)
Parse(line) == line[2]
ParseErrorText(reader) ==
    IF reader = "stdin_task" THEN "parse IPC JSON" ELSE "failed to parse worker IPC message"

FrameInit ==
    /\ Idle
    /\ \E r \in Readers, msgs \in SeqsUpTo(FrameMsgs, MaxFrameMsgs), tl \in Tails :
          /\ fin = [reader |-> r, msgs |-> msgs, tail |-> tl]
          /\ fmid = Stream(msgs) \o tl
    /\ fout = [lines |-> <<>>, msgs |-> <<>>, error |-> NoValue]
    /\ fpc = "reading"

\* one turn of `while let Some(line) = lines.next_line().await?`: the line is
\* parsed and the message dispatched, or the parse error leaves the loop
FrameReadLine ==
    /\ fpc = "reading" /\ fmid # <<>>
    /\ LET nl == NextLine(fmid) IN
          /\ fmid' = nl.rest
          /\ IF ParseOk(nl.line)
             THEN /\ fout' = [fout EXCEPT !.lines = Append(@, nl.line),
                                          !.msgs = Append(@, Parse(nl.line))]
                  /\ fpc' = "reading"
             ELSE /\ fout' = [fout EXCEPT !.lines = Append(@, nl.line),
                                          !.error = ParseErrorText(fin.reader)]
                  /\ fpc' = "failed"
    /\ UNCHANGED <<wvars, avars, pipes, pvars, svars, fin>>

\* next_line returns None: the buffer is empty at EOF
FrameEof ==
    /\ fpc = "reading" /\ fmid = <<>>
    /\ fpc' = "eof"
    /\ UNCHANGED <<wvars, avars, pipes, pvars, svars, fin, fmid, fout>>

\* ------------------------------------------------- wait_for_final_message
MaxPolls == 3
StatusMessages == {"", "a", "b"}
\* AgentStatus, with the message a status carries
AgentStatuses ==
    {[tag |-> t] : t \in {"pending_init", "running", "completed_none", "shutdown", "not_found"}}
    \cup {[tag |-> t, msg |-> x] : t \in {"completed_some", "errored"}, x \in StatusMessages}
\* the match of wait_for_final_message on the status read: the message of
\* Completed(Some msg) and Errored(msg), else as FinalSummary
SummaryOf(status) ==
    IF status.tag \in {"completed_some", "errored"} THEN status.msg ELSE FinalSummary(status.tag)

PollInit ==
    /\ Idle
    /\ fin = [tag |-> "pending_init"]
    /\ fmid = 0
    /\ fout = [summary |-> NoValue, written |-> <<>>]
    /\ fpc = "poll"

\* the thread moves on: PendingInit to Running, Running to a final status
ThreadAdvance ==
    /\ fpc \in {"poll", "sleep"}
    /\ \/ fin.tag = "pending_init" /\ fin' = [tag |-> "running"]
       \/ /\ fin.tag = "running"
          /\ fin' \in {st \in AgentStatuses : st.tag \in FinalStatuses}
    /\ UNCHANGED <<wvars, avars, pipes, pvars, svars, fmid, fout, fpc>>

\* one turn of the loop: agent_status() is read; a final status returns its
\* summary, any other goes to the sleep of 200 ms
WaitPoll ==
    /\ fpc = "poll"
    /\ IF is_final_status(fin.tag)
       THEN IF fin.tag \in FinalStatuses
            THEN /\ fout' = [fout EXCEPT !.summary = SummaryOf(fin)]
                 /\ fpc' = "returned"
                 /\ fmid' = fmid
            ELSE \* unreachable!()
                 /\ fpc' = "panicked"
                 /\ UNCHANGED <<fout, fmid>>
       ELSE /\ fmid < MaxPolls
            /\ fmid' = fmid + 1
            /\ fpc' = "sleep"
            /\ fout' = fout
    /\ UNCHANGED <<wvars, avars, pipes, pvars, svars, fin>>

\* the sleep ends, the loop polls again
WaitSleep ==
    /\ fpc = "sleep"
    /\ fpc' = "poll"
    /\ UNCHANGED <<wvars, avars, pipes, pvars, svars, fin, fmid, fout>>

\* run after the wait returned: the worker_result carries the summary
WaitEmit ==
    /\ fpc = "returned"
    /\ fout' = [fout EXCEPT !.written = <<[type |-> "worker_result", summary |-> fout.summary]>>]
    /\ fpc' = "written"
    /\ UNCHANGED <<wvars, avars, pipes, pvars, svars, fin, fmid>>

\* --------------------------------------------------------- build_l2_prompt
\* strings are sequences of characters
MaxContextLen == 2
MaxTests == 2
Section == <<"\n", "\n", "-", "-", "-", "\n", "\n">>
ContextHeader == <<"C", "o", "n", "t", "e", "x", "t", ":", "\n">>
TestsHeader ==
    <<"P", "r", "e", "f", "e", "r", "r", "e", "d", " ", "t", "e", "s", "t", "s", ":", "\n">>
Bullet == <<"-", " ">>

\* char::is_whitespace, on the characters used here
IsWhitespace(c) == c \in {" ", "\n", "\t"}
RECURSIVE TrimStart(_)
TrimStart(str) ==
    IF str # <<>> /\ IsWhitespace(Head(str)) THEN TrimStart(Tail(str)) ELSE str
RECURSIVE TrimEnd(_)
TrimEnd(str) ==
    IF str # <<>> /\ IsWhitespace(str[Len(str)])
    THEN TrimEnd(SubSeq(str, 1, Len(str) - 1)) ELSE str
\* str::trim
Trim(str) == TrimEnd(TrimStart(str))

\* a test of the context that does not trim it
ContextIsBlank_untrimmed(context) == context = <<>>
\* context.trim().is_empty()
ContextIsBlank(context) == Trim(context) = <<>>

\* the loop over request.tests
RECURSIVE TestLines(_)
TestLines(tests) ==
    IF tests = <<>> THEN <<>>
    ELSE Bullet \o Head(tests) \o <<"\n">> \o TestLines(Tail(tests))

build_l2_prompt(request) ==
    LET p1 == request.task
        p2 == IF request.context # None /\ ~ContextIsBlank(request.context[1])
              THEN p1 \o Section \o ContextHeader \o request.context[1]
              ELSE p1
        p3 == IF request.tests # <<>>
              THEN p2 \o Section \o TestsHeader \o TestLines(request.tests)
              ELSE p2
    IN p3

\* the requests explored: contexts absent, empty, blank, padded and plain
PromptRequests ==
    [task : {<<>>, <<"t">>},
     context : {None} \cup {Some(c) : c \in SeqsUpTo({" ", "c"}, MaxContextLen)},
     tests : SeqsUpTo({<<"a">>, <<"b", " ", "x">>}, MaxTests),
     base_ref : {None, Some(<<"m">>), Some(<<"H">>)}]

PromptInit ==
    /\ Idle
    /\ fin \in PromptRequests
    /\ fmid = NoValue /\ fout = NoValue /\ fpc = "in"

\* run, line 224: the prompt of the request is built
PromptBuild ==
    /\ fpc = "in"
    /\ fout' = build_l2_prompt(fin)
    /\ fpc' = "built"
    /\ UNCHANGED <<wvars, avars, pipes, pvars, svars, fin, fmid>>

\* --------------------------------------------------------- truncate_output
MaxTextChars == 4
MaxLimit == 3
\* the width of a character in UTF-8
Width(c) == CASE c = "e'" -> 2 [] c = "..." -> 3 [] OTHER -> 1
\* a &str as its bytes: byte i of n of character ch
RECURSIVE Utf8(_)
Utf8(chars) ==
    IF chars = <<>> THEN <<>>
    ELSE [i \in 1..Width(Head(chars)) |-> [ch |-> Head(chars), i |-> i, n |-> Width(Head(chars))]]
         \o Utf8(Tail(chars))
\* "\n...(truncated)...\n", the dots being U+2026
TruncationMarker ==
    Utf8(<<"\n", "...", "(", "t", "r", "u", "n", "c", "a", "t", "e", "d", ")", "...", "\n">>)
\* str::is_char_boundary
is_char_boundary(bytes, index) ==
    \/ index = 0
    \/ index = Len(bytes)
    \/ index < Len(bytes) /\ bytes[index + 1].i = 1
Panic == "panic"
\* &text[..max_bytes] is reached and max_bytes is inside a character: the
\* slice panics
SlicePanics(text, max_bytes) == Len(text) > max_bytes /\ ~is_char_boundary(text, max_bytes)

truncate_output(text, max_bytes) ==
    IF Len(text) <= max_bytes THEN text
    ELSE IF SlicePanics(text, max_bytes) THEN Panic
    ELSE SubSeq(text, 1, max_bytes) \o TruncationMarker

\* texts of one-byte and two-byte characters, and limits around their lengths
TruncInputs ==
    [text : SeqsUpTo({"a", "e'"}, MaxTextChars), max_bytes : 0..MaxLimit]

TruncInit ==
    /\ Idle
    /\ fin \in TruncInputs
    /\ fmid = NoValue /\ fout = NoValue /\ fpc = "in"

\* the ExecCommandEnd arm: truncate_output(&ev.formatted_output, ..)
Truncate ==
    /\ fpc = "in"
    /\ fmid' = Utf8(fin.text)
    /\ fout' = truncate_output(Utf8(fin.text), fin.max_bytes)
    /\ fpc' = IF SlicePanics(Utf8(fin.text), fin.max_bytes) THEN "panicked" ELSE "done"
    /\ UNCHANGED <<wvars, avars, pipes, pvars, svars, fin>>

\* ------------------------------------------------------- ConfigLayerSource
\* the values of ConfigLayerSource explored: every variant, and two values of
\* each field a variant has
Files == {"/a/config.toml", "/b/config.toml"}
ConfigLayerSources ==
    {[variant |-> "Mdm", domain |-> d, key |-> k] : d \in {"com.a", "com.b"}, k \in {"k"}}
    \cup {[variant |-> "System", file |-> f] : f \in Files}
    \cup {[variant |-> "User", file |-> f] : f \in Files}
    \cup {[variant |-> "Project", dot_codex_folder |-> f] : f \in {"/p/.realmx", "/p/q/.realmx"}}
    \cup {[variant |-> "SessionFlags"]}
    \cup {[variant |-> "LegacyManagedConfigTomlFromFile", file |-> f] : f \in Files}
    \cup {[variant |-> "LegacyManagedConfigTomlFromMdm"]}

\* a table that gives Project the value of User
precedence_projectasuser(source) ==
    CASE source.variant = "Mdm" -> 0
      [] source.variant = "System" -> 10
      [] source.variant \in {"User", "Project"} -> 20
      [] source.variant = "SessionFlags" -> 30
      [] source.variant = "LegacyManagedConfigTomlFromFile" -> 40
      [] source.variant = "LegacyManagedConfigTomlFromMdm" -> 50
precedence(source) ==
    CASE source.variant = "Mdm" -> 0
      [] source.variant = "System" -> 10
      [] source.variant = "User" -> 20
      [] source.variant = "Project" -> 25
      [] source.variant = "SessionFlags" -> 30
      [] source.variant = "LegacyManagedConfigTomlFromFile" -> 40
      [] source.variant = "LegacyManagedConfigTomlFromMdm" -> 50

\* i16::cmp
Cmp(x, y) == IF x < y THEN "Less" ELSE IF x = y THEN "Equal" ELSE "Greater"
partial_cmp(self, other) == Some(Cmp(precedence(self), precedence(other)))

OrderInit ==
    /\ Idle
    /\ fin \in [self : ConfigLayerSources, other : ConfigLayerSources]
    /\ fmid = NoValue /\ fout = NoValue /\ fpc = "in"

\* self.partial_cmp(&other)
Compare ==
    /\ fpc = "in"
    /\ fout' = partial_cmp(fin.self, fin.other)
    /\ fpc' = "compared"
    /\ UNCHANGED <<wvars, avars, pipes, pvars, svars, fin, fmid>>

\* ------------------------------------------------- generate_worktree_diff
MaxListing == 2
\* output.status.code() of a process a signal ended (None)
Signalled == -1
\* what a git command left: its exit code and its stdout, a sequence of
\* pieces of text
GitResult(code, out) == [code |-> code, out |-> out]
Ok(value) == [ok |-> TRUE, value |-> value]
Err == [ok |-> FALSE]

\* a rule that takes exit code 1 for a failure, as status.success() does
DiffExitOk_strict(code) == code = 0
\* matches!(exit_code, Some(0) | Some(1))
DiffExitOk(code) == code \in {0, 1}
run_git_allow_diff_exit_code(res) == IF DiffExitOk(res.code) THEN Ok(res.out) ELSE Err
\* output.status.success()
run_git_strict(res) == IF res.code = 0 THEN Ok(res.out) ELSE Err

NotEmpty(str) == str # <<>>
\* untracked.lines().map(str::trim).filter(|s| !s.is_empty())
UntrackedNames(lines) == SelectSeq([i \in 1..Len(lines) |-> Trim(lines[i])], NotEmpty)

\* the loop over the untracked names: the first failing diff ends it
RECURSIVE DiffUntracked(_, _, _)
DiffUntracked(names, files, combined) ==
    IF names = <<>> THEN Ok(combined)
    ELSE LET diff == run_git_allow_diff_exit_code(files[Head(names)]) IN
         IF ~diff.ok THEN Err
         ELSE DiffUntracked(Tail(names), files, combined \o diff.value)

generate_worktree_diff(git) ==
    LET tracked == run_git_allow_diff_exit_code(git.tracked) IN
    IF ~tracked.ok THEN Err
    ELSE LET untracked == run_git_strict(git.listing) IN
         IF ~untracked.ok THEN Err
         ELSE DiffUntracked(UntrackedNames(untracked.value), git.files, tracked.value)

\* the worktrees explored: what each git command answers
UntrackedFiles == {<<"f">>, <<"g">>}
ListingLines == {<<>>, <<" ">>, <<"f">>, <<" ", "g", " ">>}
Worktrees ==
    [tracked : {GitResult(0, <<>>), GitResult(0, << <<"t">> >>), GitResult(1, << <<"t">> >>),
                GitResult(128, <<>>), GitResult(Signalled, <<>>)},
     listing : {GitResult(c, ls) : c \in {0}, ls \in SeqsUpTo(ListingLines, MaxListing)}
               \cup {GitResult(1, <<>>), GitResult(Signalled, <<>>)},
     files : {[n \in UntrackedFiles |-> GitResult(IF n = <<"f">> THEN cf ELSE cg, <<n>>)] :
                cf \in {0, 1, 128}, cg \in {1, Signalled}}]

DiffInit ==
    /\ Idle
    /\ fin \in Worktrees
    /\ fmid = NoValue /\ fout = <<>> /\ fpc = "in"

\* run, line 243: generate_worktree_diff(&worktree_path)
DiffGenerate ==
    /\ fpc = "in"
    /\ fmid' = generate_worktree_diff(fin)
    /\ fpc' = "generated"
    /\ UNCHANGED <<wvars, avars, pipes, pvars, svars, fin, fout>>

\* run, lines 243-254: `?` on the result; the worker_result carries the diff
DiffEmit ==
    /\ fpc = "generated"
    /\ IF fmid.ok
       THEN /\ fout' = <<[type |-> "worker_result", diff |-> fmid.value]>>
            /\ fpc' = "written"
       ELSE /\ fout' = fout
            /\ fpc' = "failed"
    /\ UNCHANGED <<wvars, avars, pipes, pvars, svars, fin, fmid>>

\* ---------------------------------------------------------- specifications
\* the worker and the parent, joined by the two pipes
Next == WorkerNext \/ AgentNext \/ ParentNext
Spec == Init /\ [][Next]_vars

\* the worker, its L2 thread (which creates no sub-agent here), and any peer
\* on its stdin and stdout
WorkerEnvNext == WorkerNext \/ (\E s \in AgentFinals : AgentFinish(s)) \/ EnvNext
WorkerSpec == Init /\ [][WorkerEnvNext]_vars

\* the same, with the scheduling the runtime gives: run and the supervisor
\* are tasks that run when they can; a select with the token fired ends up
\* taking the cancellation branch, the creation channel holding finitely
\* many ids.  Nothing is assumed of the drains, the dispatcher, the thread
\* or the peer.
TerminationSpec ==
    /\ Init /\ [][WorkerEnvNext]_vars
    /\ WF_vars(MainWaitDone) /\ WF_vars(MainDiff) /\ WF_vars(MainSendResult)
    /\ WF_vars(SupEnumerate) /\ WF_vars(SupCancel)

\* the parent and any child
ParentChildNext == ParentNext \/ ChildNext
ParentSpec == Init /\ [][ParentChildNext]_vars

\* send alone: the tasks that write to stdout, and a reader that may go away
SendNext ==
    \/ \E p \in Producers : SendLock(p) \/ SendWrite(p) \/ SendFlush(p)
    \/ EnvCloseStdout
SendSpec == Init /\ [][SendNext]_vars

\* the codec alone: a message is encoded, the encoding is decoded
CodecNext == CodecEncode \/ CodecDecode
CodecSpec == CodecInit /\ [][CodecNext]_vars

\* a read loop alone, on a stream that ends
FrameNext == FrameReadLine \/ FrameEof
FrameSpec == FrameInit /\ [][FrameNext]_vars

\* the wait loop of run against a thread that goes through its statuses
PollNext == ThreadAdvance \/ WaitPoll \/ WaitSleep \/ WaitEmit
PollSpec == PollInit /\ [][PollNext]_vars

\* the prompt builder alone
PromptNext == PromptBuild
PromptSpec == PromptInit /\ [][PromptNext]_vars

\* the truncation alone
TruncNext == Truncate
TruncSpec == TruncInit /\ [][TruncNext]_vars

\* the comparison of two configuration layer sources alone
OrderNext == Compare
OrderSpec == OrderInit /\ [][OrderNext]_vars

\* the diff generation of run alone, over what git may answer
DiffNext == DiffGenerate \/ DiffEmit
DiffSpec == DiffInit /\ [][DiffNext]_vars

\* ============================================================== properties
AllSubmits == {<<t, i>> \in Threads \X (1..MaxEvents + 1) : i <= Len(submitted[t])}
AllTaken == UNION {{taken[t][i] : i \in 1..Len(taken[t])} : t \in Threads}

\* a step of stdin_task that handles an answer line
DispatchesAnswer ==
    /\ alive /\ dpc = "run" /\ win # <<>>
    /\ Head(win).type \in AnswerTypes
    /\ win' = Tail(win)

\* the slot registered under the answer's key receives the answer's value,
\* no other slot changes, and the key leaves the registry of that kind
DeliveryStep ==
    LET line == Head(win)
        kind == KindOfAnswer(line.type)
        key == line.request_key
        reg == pending[kind]
    IN IF key \in DOMAIN reg
       THEN /\ \A d \in DrainIds :
                 rx'[d] = IF reg[key].d = d /\ drain[d].ev.n = reg[key].n /\ rx[d] = "wait"
                          THEN line.value ELSE rx[d]
            /\ DOMAIN pending'[kind] = (DOMAIN reg) \ {key}
            /\ \A k \in DOMAIN pending'[kind] : pending'[kind][k] = reg[k]
            /\ \A other \in Kinds \ {kind} : pending'[other] = pending[other]
       ELSE UNCHANGED <<pending, rx>>

\* a live sender registered under key k of a kind belongs to the handler of
\* that kind called for event k.event_id of thread k.thread_id
RegistryKeyed ==
    \A kind \in Kinds : \A key \in DOMAIN pending[kind] :
        LET c == pending[kind][key] IN
        drain[c.d].ev.n = c.n =>
            /\ c.d[1] = key.thread_id
            /\ drain[c.d].ev.id = key.event_id
            /\ drain[c.d].ev.kind = kind

\* a submit is made by a handler to its own thread, with the id of its
\* event and the value its receiver yielded
SubmitStep ==
    \A t \in Threads :
        submitted'[t] # submitted[t] =>
            \E d \in DrainIds :
                /\ d[1] = t /\ drain[d].pc = "await" /\ rx[d] \notin {"wait", "none"}
                /\ Len(submitted'[t]) = Len(submitted[t]) + 1
                /\ SubSeq(submitted'[t], 1, Len(submitted[t])) = submitted[t]
                /\ LET r == submitted'[t][Len(submitted'[t])] IN
                      /\ r.id = drain[d].ev.id /\ r.kind = drain[d].ev.kind
                      /\ r.ev = drain[d].ev.n
                      /\ r.value = IF rx[d] = "closed" THEN DefaultAnswer(r.kind) ELSE rx[d]

\* a value a receiver holds stays until the handler takes it
ValueKept ==
    \A d \in DrainIds : rx[d] \in AllValues => rx'[d] \in {rx[d], "none"}

\* a submitted value other than the default was carried by an answer of the
\* same kind that named the thread and the event id of the submit
SubmitsCarried ==
    \A s \in AllSubmits :
        LET r == submitted[s[1]][s[2]] IN
        r.value # DefaultAnswer(r.kind) =>
            \E j \in 1..Len(dlog) :
                /\ dlog[j].hit
                /\ dlog[j].line.type = AnswerType(r.kind)
                /\ dlog[j].line.request_key = [thread_id |-> s[1], event_id |-> r.id]
                /\ dlog[j].line.value = r.value

\* C1 (request correlation): an answer of a kind that names a key present in
\* the registry of that kind gives its value to the slot registered under
\* that key and to no other, and the handler holding that slot submits that
\* value to the thread of the key with id = the key's event_id; an answer
\* whose key is absent changes no registry and no slot.
C1_RequestCorrelation ==
    /\ [][DispatchesAnswer => DeliveryStep]_vars
    /\ [][SubmitStep /\ ValueKept]_vars
    /\ [](RegistryKeyed /\ SubmitsCarried)

\* an answer was delivered and its value submitted to the thread it names
C1_Witness ==
    \E s \in AllSubmits : \E j \in 1..Len(dlog) :
        LET r == submitted[s[1]][s[2]] IN
        /\ dlog[j].hit /\ r.ok
        /\ r.value # DefaultAnswer(r.kind)
        /\ dlog[j].line = [type |-> AnswerType(r.kind),
                           request_key |-> [thread_id |-> s[1], event_id |-> r.id],
                           value |-> r.value]
        \* two requests were outstanding, and the later one was answered first
        /\ Len(dlog) = 2 /\ dlog[1].hit /\ dlog[2].hit
        /\ \E a \in 1..Len(wout), b \in 1..Len(wout) :
              /\ a < b /\ wout[a].type \in NeedTypes /\ wout[b].type \in NeedTypes
              /\ wout[b].request_key = dlog[1].line.request_key
              /\ wout[a].request_key = dlog[2].line.request_key
              /\ wout[a].request_key # wout[b].request_key

\* one submit per handler call
OneSubmitPerEvent ==
    \A s1 \in AllSubmits, s2 \in AllSubmits :
        submitted[s1[1]][s1[2]].ev = submitted[s2[1]][s2[2]].ev => s1 = s2

\* the sender of a completed slot is no longer in any registry
CompletedSenderGone ==
    \A d \in DrainIds :
        rx[d] \in AllValues =>
            \A kind \in Kinds : \A key \in DOMAIN pending[kind] :
                pending[kind][key] # [d |-> d, n |-> drain[d].ev.n]

\* the answers of a kind and key that found a sender are no more than the
\* handlers of that kind called for that key
HitsOf(kind, key) ==
    {j \in 1..Len(dlog) : /\ dlog[j].hit
                          /\ dlog[j].line.type = AnswerType(kind)
                          /\ dlog[j].line.request_key = key}
InsertsOf(kind, key) ==
    {ev \in AllTaken : /\ ev.kind = kind /\ ev.id = key.event_id
                       /\ \E i \in 1..Len(taken[key.thread_id]) : taken[key.thread_id][i] = ev}
HitsWithinInserts ==
    \A kind \in Kinds, key \in Keys :
        Cardinality(HitsOf(kind, key)) <= Cardinality(InsertsOf(kind, key))

\* an answer whose key is absent from the registry of its kind has no effect
AbsentKeyNoEffect ==
    (/\ DispatchesAnswer
     /\ Head(win).request_key \notin DOMAIN pending[KindOfAnswer(Head(win).type)])
        => UNCHANGED <<pending, rx, drain, submitted, taken, commands, wout>>

\* C2 (at-most-one completion): a slot is completed at most once.  The sender
\* of a completed slot has left its registry, a value a slot holds is never
\* replaced, each handler call submits at most once, the answers that find a
\* sender under a key are no more than the inserts under that key, and a
\* second answer for a key already removed changes nothing.
C2_AtMostOneCompletion ==
    /\ [](OneSubmitPerEvent /\ CompletedSenderGone /\ HitsWithinInserts)
    /\ [][AbsentKeyNoEffect /\ ValueKept]_vars

\* the same answer was dispatched twice: the first found the sender, the
\* second found the key removed, and the value was submitted once
C2_Witness ==
    \E i \in 1..Len(dlog), j \in 1..Len(dlog) :
        /\ i < j /\ dlog[i].line = dlog[j].line
        /\ dlog[i].hit /\ ~dlog[j].hit
        /\ \E s \in AllSubmits :
              LET r == submitted[s[1]][s[2]] IN
              dlog[i].line = AnswerMsg(r.kind, RequestKey(s[1], r.id), r.value)

\* C3 (default on channel close): once stdin_task has seen its input closed,
\* no handler that sent its Need* message is left waiting on its slot: the
\* slot has yielded, the default if no answer was delivered.
C3_DefaultOnChannelClose ==
    \A d \in DrainIds :
        (alive /\ dpc = "eof" /\ drain[d].pc = "await") => rx[d] # "wait"

\* the interactive events whose handler has returned
Returned ==
    {ev \in AllTaken : ev.kind \in Kinds /\ \A d \in DrainIds : drain[d].ev.n # ev.n}

\* C4 (agent always receives a response): every interactive event whose
\* handler has returned was answered by a submit to the thread that raised it.
C4_AgentAlwaysAnswered ==
    \A ev \in Returned : \E s \in AllSubmits : submitted[s[1]][s[2]].ev = ev.n

\* C5 (worker_result is the last stdout message): no line follows a
\* worker_result line on the worker's stdout.
C5_WorkerResultIsLast ==
    \A i \in 1..Len(wout) : wout[i].type = "worker_result" => i = Len(wout)

\* the chunk at position i of stdout belongs to the line that position i
\* falls into: lines do not interleave
Framed(i) ==
    /\ sbytes[i].part = (CASE (i - 1) % 3 = 0 -> "a" [] (i - 1) % 3 = 1 -> "b" [] OTHER -> "nl")
    /\ (i - 1) % 3 # 0 => /\ sbytes[i].task = sbytes[i - 1].task
                          /\ sbytes[i].msg = sbytes[i - 1].msg

\* C6 (line atomicity of send): under concurrent sends the stdout stream is
\* a sequence of complete lines, each the line and newline of one message
\* and each message at most once, followed at most by the partial line of a
\* write that failed; at most one task is inside send's critical section.
C6_LineAtomicity ==
    /\ \A i \in 1..Len(sbytes) : Framed(i)
    /\ \A i \in 1..Len(sbytes), j \in 1..Len(sbytes) : sbytes[i] = sbytes[j] => i = j
    /\ Cardinality({p \in Producers : spos[p] # "idle"}) <= 1
    /\ \A p \in Producers : spos[p] # "idle" <=> slock = p

\* every task has written a whole line, lines of different tasks follow
\* each other, and a later write failed and left a partial line at the end
C6_Witness ==
    /\ \A p \in Producers :
          \E i \in 1..Len(sbytes) : sbytes[i].task = p /\ sbytes[i].part = "nl"
    /\ \E i \in 1..(Len(sbytes) - 1) : sbytes[i].part = "nl" /\ sbytes[i + 1].task # sbytes[i].task
    /\ ~woutReader /\ Len(sbytes) % 3 # 0
    /\ slock = "free"

\* C7 (end-to-end delivery): when the worker has written a worker_result
\* and the parent's delegate has returned, it returned tool success with
\* that worker_result as content.
C7_ResultReachesParent ==
    \A i \in 1..Len(wout) :
        (wout[i].type = "worker_result" /\ ppc = "done")
            => presult = [kind |-> "success", content |-> wout[i]]

\* the lines the parent has read, and those that end its read loop
LinesRead == 1..prd
EndsLoop(i) == wout[i].type \in {"worker_result", "error", "malformed"}
UnexpectedExit(status) ==
    [kind |-> "respond_to_model",
     text |-> <<"agent_tree worker exited unexpectedly (status=", status, ")">>]

\* the parent returns from its read loop without having read a line
ReturnsAtEof == ppc = "read" /\ ppc' = "done" /\ prd' = prd

\* C8 (unexpected child exit): when the read loop finds the child's stdout
\* at EOF, no worker_result, error or unparsable line having been read, the
\* child has exited and delegate returns the error "agent_tree worker exited
\* unexpectedly" with the exit status; at EOF the read loop can always
\* return; delegate returns success only with the worker_result it read last.
C8_UnexpectedChildExit ==
    /\ [][ReturnsAtEof =>
            /\ ~alive /\ prd = Len(wout)
            /\ \A i \in LinesRead : ~EndsLoop(i)
            /\ presult' = UnexpectedExit(exitCode)]_vars
    /\ []((ppc = "read" /\ prd = Len(wout) /\ ~alive) => ENABLED PReadLine)
    /\ []((ppc = "done" /\ presult.kind = "success") =>
            /\ prd >= 1 /\ wout[prd].type = "worker_result"
            /\ presult.content = wout[prd])

\* scenario S6: the child exited with a failure status after only a log
\* line, and delegate returned the unexpected-exit error
C8_Witness ==
    /\ ppc = "done" /\ ~alive /\ exitCode = "failure"
    /\ prd = 1 /\ Len(wout) = 1 /\ wout[1].type = "log"
    /\ presult = UnexpectedExit("failure")

\* C9 (worker-originated error at the parent): an error line the parent has
\* read is the last line it read, delegate has returned the tool error
\* "agent_tree worker error: " followed by the message of that line, and
\* once delegate has returned it reads no line and writes no answer.
C9_WorkerErrorAtParent ==
    /\ [](\A i \in LinesRead :
            wout[i].type = "error" =>
                /\ i = prd /\ ppc = "done"
                /\ presult = [kind |-> "respond_to_model",
                              text |-> <<"agent_tree worker error: ", wout[i].message>>])
    /\ [][ppc = "done" => UNCHANGED <<prd, pwrote, win, presult, ppc>>]_vars

\* the parent answered a need, then read an error line and returned, while
\* the child went on writing
C9_Witness ==
    /\ ppc = "done" /\ prd = 2 /\ Len(wout) = 3
    /\ wout[1].type \in NeedTypes /\ wout[2].type = "error"
    /\ Len(pwrote) = 2
    /\ presult.kind = "respond_to_model"

\* the Need* lines the parent has read and the answers it has written
IsNeed(m) == m.type \in NeedTypes
NeedsRead == SelectSeq(SubSeq(wout, 1, prd), IsNeed)
AnswersWritten == IF pwrote = <<>> THEN <<>> ELSE Tail(pwrote)
AnswerTagOf(need) ==
    CASE need.type = "need_user_input" -> "user_input_answer"
      [] need.type = "need_exec_approval" -> "exec_approval_answer"
      [] need.type = "need_patch_approval" -> "patch_approval_answer"

\* C10 (parent-side answer correlation): the lines the parent has written
\* are the work_request followed by one answer per Need* line read, in the
\* order read, each of the kind of its need and with its request_key; the
\* parent reads a line only when every need read has its answer, so log,
\* work_request and answer lines produce no write; the one need that may
\* lack its answer is the one being asked, or the one whose write failed.
C10_ParentAnswerCorrelation ==
    /\ pwrote # <<>> => pwrote[1].type = "work_request"
    /\ Len(AnswersWritten) <= Len(NeedsRead)
    /\ \A i \in 1..Len(AnswersWritten) :
          /\ AnswersWritten[i].type = AnswerTagOf(NeedsRead[i])
          /\ AnswersWritten[i].request_key = NeedsRead[i].request_key
    /\ ppc = "read" => Len(AnswersWritten) = Len(NeedsRead)
    /\ ppc = "ask" => /\ Len(NeedsRead) = Len(AnswersWritten) + 1
                      /\ IsNeed(wout[prd])
    /\ (ppc = "done" /\ Len(AnswersWritten) < Len(NeedsRead)) =>
          /\ Len(NeedsRead) = Len(AnswersWritten) + 1
          /\ IsNeed(wout[prd])
          /\ presult = [kind |-> "fatal", text |-> "failed to write to worker stdin"]

\* two needs of different kinds and keys were answered in order, with a log
\* line read between them that produced no write
C10_Witness ==
    /\ ppc = "read" /\ prd = 3 /\ Len(AnswersWritten) = 2
    /\ IsNeed(wout[1]) /\ wout[2].type = "log" /\ IsNeed(wout[3])
    /\ wout[1].type # wout[3].type
    /\ wout[1].request_key # wout[3].request_key

\* the main task leaves the first-line check on a missing first line or on a
\* first line that parses to another variant
FirstLineDeviation ==
    /\ alive /\ mpc = "first_line" /\ mpc' # mpc
    /\ \/ win = <<>>
       \/ win # <<>> /\ Head(win).type \notin {"work_request", "malformed"}
NothingStarted ==
    /\ created = {} /\ l2status = "none" /\ dpc = "none" /\ spc = "none"
    /\ \A d \in DrainIds : drain[d].pc = "none"

\* C11 (first-line check): when stdin yields no first line, or a first line
\* of a variant other than work_request, the worker writes exactly one
\* error message (none reaches a stdout whose reader is gone) and nothing
\* else, run fails, and the process can only exit with failure; no thread,
\* dispatcher, supervisor or drain exists then or later.
C11_FirstLineCheck ==
    /\ [][FirstLineDeviation =>
            /\ mpc' = "failed" /\ wout = <<>>
            /\ wout' = IF woutReader
                       THEN <<[type |-> "error",
                               message |-> IF win = <<>> THEN "missing WorkRequest"
                                           ELSE "expected work_request"]>>
                       ELSE <<>>]_vars
    /\ []((mpc = "failed" /\ dpc = "none") =>
            /\ NothingStarted
            /\ Len(wout) <= 1
            /\ \A i \in 1..Len(wout) : wout[i].type = "error"
            /\ ~alive => exitCode = "failure"
            /\ alive => ENABLED WorkerExit)

\* the first line was a log message: one error on stdout, exit with failure
C11_Witness ==
    /\ ~alive /\ exitCode = "failure" /\ mpc = "failed"
    /\ wout = <<[type |-> "error", message |-> "expected work_request"]>>
    /\ NothingStarted /\ nenv = 1

\* run failed before the L2 thread existed: a startup error
StartupFailed == alive /\ mpc = "failed" /\ created = {}
ErrorLines == {i \in 1..Len(wout) : wout[i].type = "error"}

\* C12 (startup errors): when run has failed at startup (first line missing,
\* of another variant or unparsable, no repo root, worktree creation failed,
\* thread start failed) and stdout has its reader, stdout holds exactly one
\* error message.
C12_StartupErrorEmitsOneError ==
    (StartupFailed /\ woutReader) => Cardinality(ErrorLines) = 1

\* the type tag the protocol gives each variant
TagName(V) ==
    CASE V = "WorkRequest" -> "work_request"
      [] V = "NeedUserInput" -> "need_user_input"
      [] V = "UserInputAnswer" -> "user_input_answer"
      [] V = "NeedExecApproval" -> "need_exec_approval"
      [] V = "ExecApprovalAnswer" -> "exec_approval_answer"
      [] V = "NeedPatchApproval" -> "need_patch_approval"
      [] V = "PatchApprovalAnswer" -> "patch_approval_answer"
      [] V = "WorkerResult" -> "worker_result"
      [] V = "Log" -> "log"
      [] V = "Error" -> "error"

\* C13 (tag round-trip): the encoding of a message is one object that holds
\* type = the snake_case name of the variant and, next to it, exactly the
\* fields of the variant's payload; decoding it yields the same variant with
\* every field equal.
C13_TagRoundTrip ==
    /\ fpc \in {"encoded", "decoded"} =>
          /\ DOMAIN fmid = {"type"} \cup DOMAIN fin.payload
          /\ fmid["type"] = [j |-> "string", v |-> TagName(fin.variant)]
    /\ fpc = "decoded" =>
          /\ fout.variant = fin.variant
          /\ DOMAIN fout.payload = DOMAIN fin.payload
          /\ \A f \in DOMAIN fin.payload : fout.payload[f] = fin.payload[f]

\* a work_request with an absent context, two tests and a base_ref went
\* through the codec
C13_Witness ==
    /\ fpc = "decoded"
    /\ fin.variant = "WorkRequest"
    /\ fin.payload.context = <<>> /\ Len(fin.payload.tests) = 2
    /\ fin.payload.base_ref = <<"HEAD">>
    /\ fmid["context"].j = "null"
    /\ fout = fin

\* the read loop has left its loop, at EOF or with an error
FrameDone == fpc \in {"eof", "failed"}

\* C14 (framing): the messages written as encoding plus newline are read
\* back the same and in order, and what follows the last newline at EOF is
\* neither handed to the parser, nor dispatched, nor the cause of an error,
\* in the worker's input dispatcher and in the parent's read loop.
C14_Framing ==
    /\ Len(fout.lines) <= Len(fin.msgs)
    /\ FrameDone =>
          /\ fpc = "eof"
          /\ fout.msgs = fin.msgs
          /\ fout.error = NoValue

\* the part of C14 that holds: without a partial line the messages come back
\* the same and in order
FramingOfWholeLines ==
    (FrameDone /\ fin.tail = <<>>) =>
        fpc = "eof" /\ fout.msgs = fin.msgs /\ fout.error = NoValue

\* the summary the contract gives each final status
SummaryContract(status) ==
    CASE status.tag = "completed_some" -> status.msg
      [] status.tag = "completed_none" -> ""
      [] status.tag = "errored" -> status.msg
      [] status.tag = "shutdown" -> "shutdown"
      [] status.tag = "not_found" -> "not found"
      [] OTHER -> NoValue
NonFinal == fin.tag \in {"pending_init", "running"}

\* C15 (terminal-state polling): the wait has returned only if the status is
\* Completed, Errored, Shutdown or NotFound, and then with the summary the
\* contract gives that status; while the status is PendingInit or Running
\* the loop is polling or asleep, a poll goes to the sleep and the sleep to
\* the next poll, and no worker_result is written.
C15_TerminalStatePolling ==
    /\ [](fpc \in {"returned", "written"} =>
            /\ fin.tag \in {"completed_some", "completed_none", "errored", "shutdown", "not_found"}
            /\ fout.summary = SummaryContract(fin))
    /\ [](NonFinal => fpc \in {"poll", "sleep"} /\ fout.written = <<>>)
    /\ [][(NonFinal /\ fpc # fpc') =>
            /\ fpc = "poll" => fpc' = "sleep"
            /\ fpc = "sleep" => fpc' = "poll"
            /\ fout' = fout]_vars

\* the wait polled a running thread, slept, and returned "shutdown" once the
\* thread had shut down; the result written carries it
C15_Witness ==
    /\ fpc = "written" /\ fmid >= 2
    /\ fin.tag = "shutdown"
    /\ fout.written = <<[type |-> "worker_result", summary |-> "shutdown"]>>

\* the prompt as the contract writes it, from task, context and tests
ContextSection(context) ==
    IF context # <<>> /\ \E i \in 1..Len(context[1]) : context[1][i] # " "
    THEN <<"\n", "\n", "-", "-", "-", "\n", "\n", "C", "o", "n", "t", "e", "x", "t", ":", "\n">>
         \o context[1]
    ELSE <<>>
TestLine(cmd) == <<"-", " ">> \o cmd \o <<"\n">>
TestsSection(tests) ==
    IF Len(tests) = 0 THEN <<>>
    ELSE <<"\n", "\n", "-", "-", "-", "\n", "\n",
           "P", "r", "e", "f", "e", "r", "r", "e", "d", " ", "t", "e", "s", "t", "s", ":", "\n">>
         \o (IF Len(tests) >= 1 THEN TestLine(tests[1]) ELSE <<>>)
         \o (IF Len(tests) >= 2 THEN TestLine(tests[2]) ELSE <<>>)
         \o (IF Len(tests) >= 3 THEN TestLine(tests[3]) ELSE <<>>)
PromptContract(task, context, tests) == task \o ContextSection(context) \o TestsSection(tests)

\* C16 (prompt determinism): the prompt built is the task, then the Context
\* section with the untrimmed context exactly when the context is present and
\* not blank, then the Preferred tests section with one line per test in
\* order exactly when there are tests: a function of task, context and tests
\* in which base_ref has no part.
C16_PromptDeterminism ==
    fpc = "built" => fout = PromptContract(fin.task, fin.context, fin.tests)

\* a prompt was built from a context padded with a blank, two tests and a
\* base_ref
C16_Witness ==
    /\ fpc = "built"
    /\ fin.context = << <<" ", "c">> >> /\ Len(fin.tests) = 2 /\ fin.base_ref # <<>>
    /\ fin.task = <<"t">>
    /\ Len(fout) = 1 + 16 + 2 + 24 + Len(fin.tests[1]) + Len(fin.tests[2]) + 6

\* C17 (output truncation): a text of at most max_bytes bytes comes back
\* unchanged; a longer text comes back as its first max_bytes bytes followed
\* by the marker, of length max_bytes plus the marker's length.
C17_OutputTruncation ==
    fpc \in {"done", "panicked"} =>
        /\ fpc = "done"
        /\ Len(fmid) <= fin.max_bytes => fout = fmid
        /\ Len(fmid) > fin.max_bytes =>
              /\ fout = SubSeq(fmid, 1, fin.max_bytes) \o TruncationMarker
              /\ Len(fout) = fin.max_bytes + Len(TruncationMarker)

\* the part of C17 that holds: the claim for every text in which the limit
\* falls between two characters
TruncationOnBoundary ==
    (fpc \in {"done", "panicked"} /\ is_char_boundary(fmid, fin.max_bytes)) =>
        /\ fpc = "done"
        /\ Len(fmid) <= fin.max_bytes => fout = fmid
        /\ Len(fmid) > fin.max_bytes =>
              fout = SubSeq(fmid, 1, fin.max_bytes) \o TruncationMarker

\* the layers from the lowest precedence to the highest
PrecedenceChain ==
    <<"Mdm", "System", "User", "Project", "SessionFlags",
      "LegacyManagedConfigTomlFromFile", "LegacyManagedConfigTomlFromMdm">>
PlaceOf(variant) == CHOOSE i \in 1..Len(PrecedenceChain) : PrecedenceChain[i] = variant

\* C18 (precedence ordering): partial_cmp never returns None; it returns
\* Less exactly when the first variant comes before the second in the chain
\* Mdm, System, User, Project, SessionFlags, LegacyManagedConfigTomlFromFile,
\* LegacyManagedConfigTomlFromMdm, Greater exactly when it comes after, and
\* Equal for two values of one variant, whatever the fields hold.
C18_PrecedenceOrdering ==
    fpc = "compared" =>
        /\ fout # <<>>
        /\ Len(fout) = 1
        /\ fout[1] = "Less" <=> PlaceOf(fin.self.variant) < PlaceOf(fin.other.variant)
        /\ fout[1] = "Greater" <=> PlaceOf(fin.self.variant) > PlaceOf(fin.other.variant)
        /\ fout[1] = "Equal" <=> fin.self.variant = fin.other.variant

\* a User layer was compared with a Project layer, and two User layers of
\* different files with each other
C18_Witness ==
    /\ fpc = "compared"
    /\ fin.self.variant = "User"
    /\ \/ fin.other.variant = "Project" /\ fout = <<"Less">>
       \/ fin.other.variant = "User" /\ fin.other.file # fin.self.file /\ fout = <<"Equal">>

\* the non-empty trimmed lines of the listing, in listing order
ListedNames ==
    LET lines == fin.listing.out
        strip(l) == IF l = <<>> \/ \A i \in 1..Len(l) : l[i] = " " THEN <<>>
                    ELSE <<CHOOSE c \in {"f", "g"} : \E i \in 1..Len(l) : l[i] = c>>
        kept == {i \in 1..Len(lines) : strip(lines[i]) # <<>>}
        nth(k) == CHOOSE i \in kept : Cardinality({j \in kept : j < i}) = k - 1
    IN [k \in 1..Cardinality(kept) |-> strip(lines[nth(k)])]
\* every diff command counts as a success and so does the listing
AllSucceed ==
    /\ fin.tracked.code \in {0, 1}
    /\ fin.listing.code = 0
    /\ \A k \in 1..Len(ListedNames) : fin.files[ListedNames[k]].code \in {0, 1}
\* the tracked diff, then the no-index diff of each listed file
ComposedDiff ==
    LET n == Len(ListedNames) IN
    fin.tracked.out
    \o (IF n >= 1 THEN fin.files[ListedNames[1]].out ELSE <<>>)
    \o (IF n >= 2 THEN fin.files[ListedNames[2]].out ELSE <<>>)
    \o (IF n >= 3 THEN fin.files[ListedNames[3]].out ELSE <<>>)

\* C19 (diff composition): when the tracked diff, the listing and the diff
\* of every listed file succeed (exit code 0 or 1 for a diff), the
\* worker_result's diff is the tracked diff followed by the no-index diff of
\* each non-empty trimmed line of the listing, in listing order; otherwise
\* the generation fails and no worker_result is written.
C19_DiffComposition ==
    /\ fpc \in {"generated", "written", "failed"} => (fmid.ok <=> AllSucceed)
    /\ fpc = "written" => fout = <<[type |-> "worker_result", diff |-> ComposedDiff]>>
    /\ fpc = "written" => AllSucceed
    /\ (fpc = "failed" \/ (fpc = "generated" /\ ~AllSucceed)) => fout = <<>>

\* a tracked diff and two untracked files listed as g, then a blank line's
\* neighbour f, both no-index diffs exiting with 1: the result holds the
\* three pieces in that order
C19_Witness ==
    /\ fpc = "written"
    /\ fin.tracked = [code |-> 1, out |-> << <<"t">> >>]
    /\ fin.listing.out = << <<" ", "g", " ">>, <<"f">> >>
    /\ fin.files[<<"f">>].code = 1 /\ fin.files[<<"g">>].code = 1
    /\ fout[1].diff = << <<"t">>, <<"g">>, <<"f">> >>

\* the worker_result lines on the worker's stdout
ResultLines(w) == {i \in 1..Len(w) : w[i].type = "worker_result"}
\* this step writes the worker_result line
ResultWritten == ResultLines(wout) = {} /\ ResultLines(wout') # {}
\* the ExecCommandEnd events the drains have consumed, by thread
ExecEndsTaken ==
    {<<t, i>> \in Threads \X (1..MaxEvents) :
        i <= Len(taken[t]) /\ taken[t][i].kind = "exec_command_end"}
\* the log holds one entry per ExecCommandEnd consumed, none twice
LogMatchesTaken ==
    /\ Len(commands) = Cardinality(ExecEndsTaken)
    /\ \A i, j \in 1..Len(commands) : commands[i] = commands[j] => i = j
    /\ \A i \in 1..Len(commands) :
          \E p \in ExecEndsTaken :
              p[1] = commands[i].thread /\ taken[p[1]][p[2]].n = commands[i].ev
\* the log only grows, at its end
AppendOnly == commands' = commands \/ \E e \in {commands'[Len(commands')]} : commands' = Append(commands, e)

\* C20 (command log): the log holds exactly one entry per ExecCommandEnd
\* consumed, in the order of the appends, and only grows at its end; the
\* worker_result, at the step that writes it, carries the whole log, so
\* every ExecCommandEnd consumed before that step is in it.
C20_CommandLog ==
    /\ []LogMatchesTaken
    /\ [][commands' # commands => AppendOnly]_vars
    /\ [][ResultWritten =>
            \A i \in ResultLines(wout') : wout'[i].commands = commands]_vars

\* the parts of C20 that hold: one entry per consumed event, appended in
\* order, never removed; the result carries a prefix of the log
CommandLogPrefix ==
    /\ []LogMatchesTaken
    /\ [][commands' # commands => AppendOnly]_vars
    /\ [][ResultWritten =>
            \A i \in ResultLines(wout') :
                /\ Len(wout'[i].commands) <= Len(commands)
                /\ wout'[i].commands = SubSeq(commands, 1, Len(wout'[i].commands))]_vars

\* the Need* lines on the worker's stdout
NeedLines(w) == {i \in 1..Len(w) : w[i].type \in NeedTypes}
\* this step writes a Need* line
NeedWritten == Len(wout') = Len(wout) + 1 /\ wout'[Len(wout')].type \in NeedTypes
\* an answer of this kind for this key has been delivered to a registered sender
Delivered(kind, key) ==
    \E j \in 1..Len(dlog) :
        /\ dlog[j].line.type = AnswerType(kind)
        /\ dlog[j].line.request_key = key
        /\ dlog[j].hit
\* this step is the dispatcher handling an answer
AnswerDispatched == Len(dlog') = Len(dlog) + 1

\* C21 (insert before send): a step that writes a Need* line finds the
\* line's key in the registry of its kind, where the handler put it; and an
\* answer the dispatcher handles after a Need* line was written, at most one
\* answer per Need* line, finds the key present.
C21_InsertBeforeSend ==
    /\ [][NeedWritten =>
            LET need == wout'[Len(wout')] IN
            need.request_key \in DOMAIN pending[KindOfNeed(need.type)]]_vars
    /\ [][AnswerDispatched =>
            LET a == dlog'[Len(dlog')]
                kind == KindOfAnswer(a.line.type)
                needs == {i \in NeedLines(wout) :
                            /\ wout[i].type = NeedType(kind)
                            /\ wout[i].request_key = a.line.request_key}
                answers == {j \in 1..Len(dlog) : dlog[j].line = a.line}
            IN Cardinality(answers) < Cardinality(needs) => a.hit]_vars

\* the part of C21 that holds: the key of a Need* line written is in the
\* registry until an answer for that key is delivered, and the first answer
\* for the key finds it present
KeyKeptUntilDelivered ==
    /\ [](\A i \in NeedLines(wout) :
            \/ wout[i].request_key \in DOMAIN pending[KindOfNeed(wout[i].type)]
            \/ Delivered(KindOfNeed(wout[i].type), wout[i].request_key))
    /\ [][AnswerDispatched =>
            LET a == dlog'[Len(dlog')]
                kind == KindOfAnswer(a.line.type)
            IN (/\ \E i \in NeedLines(wout) :
                      wout[i].type = NeedType(kind) /\ wout[i].request_key = a.line.request_key
                /\ ~Delivered(kind, a.line.request_key))
               => a.hit]_vars

\* the drains that are inside an interactive handler
InHandler == {d \in DrainIds : drain[d].pc \in {"send", "await"}}
\* the key and kind of the request a drain's handler is handling
HandlerKey(d) == [kind |-> drain[d].ev.kind, key |-> RequestKey(d[1], drain[d].ev.id)]
\* this step is a handler inserting its sender under this key
Inserts(kind, key) ==
    \E d \in DrainIds :
        /\ drain[d].pc = "idle" /\ drain'[d].pc = "send"
        /\ drain'[d].ev.kind = kind /\ RequestKey(d[1], drain'[d].ev.id) = key

\* C22 (RequestKey uniqueness): no two handlers are handling requests of the
\* same kind under the same key, and a handler never inserts a key that its
\* registry already holds.
C22_KeyUniqueness ==
    /\ [](\A d1, d2 \in InHandler : HandlerKey(d1) = HandlerKey(d2) => d1 = d2)
    /\ [][\A kind \in Kinds, key \in Keys :
            Inserts(kind, key) => key \notin DOMAIN pending[kind]]_vars

\* the drain tasks of a thread that exist and have not exited
LiveDrains(t) == {d \in DrainIds : d[1] = t /\ drain[d].pc \notin {"none", "exit"}}

\* C23 (one drain per thread): every agent thread, the L2 thread included,
\* has at most one per-thread drain task consuming its events.
C23_OneDrainPerThread == \A t \in Threads : Cardinality(LiveDrains(t)) <= 1

\* a drain task was spawned for the thread
HasDrain(t) == \E d \in DrainIds : d[1] = t /\ drain[d].pc # "none"

\* C24 (supervisor coverage): the supervisor stops only when the token has
\* fired, and when it has stopped every thread that was created before the
\* token fired (threads are created while the L2 thread runs, the token
\* fires after it has finished) has been given a drain.
C24_SupervisorCoverage ==
    /\ [](spc = "done" => \A t \in created : HasDrain(t))
    /\ [][(spc # "done" /\ spc' = "done") => cancel]_vars

\* the parts of C24 that hold: the threads that exist when the supervisor
\* starts have a drain once the enumeration is over, and the loop of the
\* supervisor ends only with the token fired
EnumerationCovers ==
    /\ [](spc \in {"loop", "done"} => HasDrain(L2))
    /\ [][(spc # "done" /\ spc' = "done") => cancel]_vars

\* a sequence of event numbers is in the order of emission
InEmissionOrder(ns) == \A i, j \in 1..Len(ns) : i < j => ns[i] < ns[j]
\* the events of a thread whose Need* line is on stdout, in the order written
NeedsOf(t) ==
    LET OfThread(l) == l.type \in NeedTypes /\ l.request_key.thread_id = t
        ls == SelectSeq(wout, OfThread)
    IN [i \in 1..Len(ls) |-> ls[i].ev]
\* the events of a thread in the command log, in the order appended
CommandsOf(t) ==
    LET OfThread(c) == c.thread = t
        cs == SelectSeq(commands, OfThread)
    IN [i \in 1..Len(cs) |-> cs[i].ev]
\* the events of a thread whose answer was submitted, in the order submitted
SubmitsOf(t) == [i \in 1..Len(submitted[t]) |-> submitted[t][i].ev]

\* C25 (per-thread event order): for every thread, the Need* lines written,
\* the command-log entries appended and the answers submitted follow the
\* order in which the thread emitted the events they belong to.
C25_PerThreadOrder ==
    \A t \in Threads :
        /\ InEmissionOrder(NeedsOf(t))
        /\ InEmissionOrder(CommandsOf(t))
        /\ InEmissionOrder(SubmitsOf(t))

\* a drain suspended with nothing to do but wait: at the select of its loop,
\* or inside a handler whose answer has not come
Suspended(d) ==
    \/ drain[d].pc = "idle"
    \/ drain[d].pc = "await" /\ rx[d] = "wait"

\* C26 (cancellation): the wait of run returns with the token fired; with
\* the token fired the supervisor can leave its loop, and every drain that
\* is suspended, at its select or inside a handler waiting for an answer,
\* can observe the token and exit (or else, with a peer that never answers,
\* it never does).
C26_Cancellation ==
    /\ [][(mpc = "wait" /\ mpc' # "wait") => (is_final_status(l2status) /\ cancel')]_vars
    /\ []((alive /\ cancel /\ spc = "loop") => ENABLED SupCancel)
    /\ [](\A d \in DrainIds :
            (alive /\ cancel /\ Suspended(d)) => ENABLED DrainCancel(d))

\* the part of C26 that holds: the token fires when the wait returns, the
\* supervisor can then leave its loop, and a drain at its select can exit
CancellationAtSelect ==
    /\ [][(mpc = "wait" /\ mpc' # "wait") => (is_final_status(l2status) /\ cancel')]_vars
    /\ []((alive /\ cancel /\ spc = "loop") => ENABLED SupCancel)
    /\ [](\A d \in DrainIds :
            (alive /\ cancel /\ drain[d].pc = "idle") => ENABLED DrainCancel(d))

\* this step is a handler of drain d failing: its send of Need* wrote
\* nothing, or the submit of the answer was refused
HandlerFails(d) ==
    \/ drain[d].pc = "send" /\ drain'[d].pc # "send" /\ wout' = wout
    \/ /\ drain[d].pc = "await" /\ drain'[d].pc # "await"
       /\ Len(submitted'[d[1]]) = Len(submitted[d[1]]) + 1
       /\ ~submitted'[d[1]][Len(submitted'[d[1]])].ok
\* this step writes at most one line, an error-level log
OneErrorLogAttempt ==
    \/ wout' = wout
    \/ /\ Len(wout') = Len(wout) + 1 /\ SubSeq(wout', 1, Len(wout)) = wout
       /\ wout'[Len(wout')].type = "log" /\ wout'[Len(wout')].level = "error"

Reads(type) ==
    /\ alive /\ dpc = "run" /\ win # <<>> /\ Head(win).type = type
    /\ win' = Tail(win)
\* this step appends exactly one line, of the given type, to stdout
WritesOne(type) ==
    /\ Len(wout') = Len(wout) + 1 /\ SubSeq(wout', 1, Len(wout)) = wout
    /\ wout'[Len(wout')].type = type
\* once stdin_task has left its loop no line is dispatched
StoppedForGood ==
    [][(dpc \in {"done", "failed", "eof"}) =>
          /\ dpc' = dpc /\ dlog' = dlog
          /\ \A d \in DrainIds : (rx'[d] \in AllValues => rx'[d] = rx[d])]_vars

\* C28 (protocol error in the input dispatcher): reading a line that does
\* not parse, the dispatcher writes one error message to stdout (its reader
\* being there) and stops; afterwards no answer is delivered.
C28_ProtocolError ==
    /\ [][Reads("malformed") =>
            /\ dpc' # "run"
            /\ woutReader => WritesOne("error")]_vars
    /\ StoppedForGood

\* what holds of an unparsable line: the dispatcher stops, writing nothing,
\* and delivers no answer afterwards
StopsOnUnparsable ==
    /\ [][Reads("malformed") => dpc' = "failed" /\ wout' = wout]_vars
    /\ StoppedForGood

\* the variants of AgentTreeIpcMessage that are neither answers, log nor error
OtherTypes == {"work_request", "worker_result"} \cup NeedTypes

\* C29 (dispatcher message handling), stdout being read: an inbound error is
\* written back unchanged and ends the dispatcher, after which no answer is
\* delivered; an inbound log writes nothing; any other non-answer variant
\* writes one warn-level log and leaves the dispatcher running, so that it
\* takes the lines that follow.
C29_DispatcherMessages ==
    /\ [][/\ Reads("error") =>
               /\ dpc' # "run"
               /\ woutReader => WritesOne("error") /\ wout'[Len(wout')] = Head(win)
          /\ Reads("log") => wout' = wout /\ dpc' = "run"
          /\ \A type \in OtherTypes :
               (Reads(type) /\ woutReader) =>
                  /\ WritesOne("log") /\ wout'[Len(wout')].level = "warn"
                  /\ dpc' = "run"]_vars
    /\ StoppedForGood
    /\ []((alive /\ dpc = "run" /\ win # <<>>) => ENABLED Dispatch)

\* a non-answer variant was read and answered by a warn log, the dispatcher
\* went on, and the answer to a Need* written after that log was delivered
C29_Witness ==
    /\ dpc = "run"
    /\ \E j, k \in 1..Len(wout) :
          /\ j < k
          /\ wout[j].type = "log" /\ wout[j].level = "warn"
          /\ wout[k].type \in NeedTypes
          /\ \A i \in 1..(j - 1) : wout[i].type \in NeedTypes =>
                                      wout[i].request_key # wout[k].request_key
          /\ \E a \in 1..Len(dlog) :
                dlog[a].hit /\ dlog[a].line.request_key = wout[k].request_key

\* this step is the handler of drain d returning
HandlerReturns(d) == drain[d].pc \in {"send", "await"} /\ drain'[d].pc \in {"idle", "logerr"}

\* C30 (no stale registry entries): while no drain is inside a handler the
\* three registries are empty, and a handler that returns, with success or
\* with a failure, leaves no entry of its own behind.
C30_NoStaleEntries ==
    /\ [](InHandler = {} => \A kind \in Kinds : DOMAIN pending[kind] = {})
    /\ [][\A d \in DrainIds : HandlerReturns(d) =>
             \A kind \in Kinds : \A key \in DOMAIN pending'[kind] :
                 pending'[kind][key] # Chan(d, drain[d].ev.n)]_vars

\* what holds: a handler that returns from waiting on its receiver has no
\* sender left in a registry, and no step but a delivery removes an entry
RemovedOnlyByDelivery ==
    [][/\ \A d \in DrainIds :
            (drain[d].pc = "await" /\ drain'[d].pc # "await") =>
               \A kind \in Kinds : \A key \in DOMAIN pending[kind] :
                   pending[kind][key] # Chan(d, drain[d].ev.n)
       /\ \A kind \in Kinds : \A key \in DOMAIN pending[kind] :
            key \notin DOMAIN pending'[kind] =>
               /\ Len(dlog') = Len(dlog) + 1
               /\ dlog'[Len(dlog')].line.request_key = key]_vars

\* the positions of stdout that hold a line of the given type
LinesOf(type) == {i \in 1..Len(wout) : wout[i].type = type}

\* C31 (exclusive final outcome): stdout holds at most one worker_result and
\* never both an error and a worker_result; a worker that has written an
\* error writes no worker_result afterwards and exits with failure.
C31_ExclusiveOutcome ==
    /\ [](Cardinality(LinesOf("worker_result")) <= 1)
    /\ [](LinesOf("error") = {} \/ LinesOf("worker_result") = {})
    /\ []((~alive /\ LinesOf("error") # {}) => exitCode = "failure")

\* what holds: at most one worker_result is written, it is written by run
\* alone, and an error written by run itself (the first-line check) excludes
\* a worker_result and ends in an exit with failure
OwnErrorIsFinal ==
    /\ [](Cardinality(LinesOf("worker_result")) <= 1)
    /\ [][LinesOf("worker_result")' # LinesOf("worker_result") =>
             mpc = "result" /\ mpc' = "returned"]_vars
    /\ []((dpc = "none" /\ LinesOf("error") # {}) =>
             /\ LinesOf("worker_result") = {}
             /\ mpc = "failed"
             /\ ~alive => exitCode = "failure")

\* a request written to stdout whose answer no handler has received
Unanswered(d) == drain[d].pc = "await" /\ rx[d] = "wait"

\* C32 (worker termination): once the L2 thread is in a terminal status the
\* worker comes to return with exactly one worker_result on stdout, or to
\* fail; after the prompt was submitted it fails only on a git command or on
\* a stdout nobody reads.  The join needs the supervisor alone.
C32_WorkerTermination ==
    /\ (alive /\ is_final_status(l2status)) ~>
          \/ mpc = "returned" /\ Cardinality(LinesOf("worker_result")) = 1
          \/ mpc = "failed"
    /\ [][(mpc \in {"wait", "await_sup", "result"} /\ mpc' = "failed") =>
             mpc = "await_sup" \/ (mpc = "result" /\ ~woutReader)]_vars
    /\ []((alive /\ mpc = "await_sup" /\ spc = "done") => ENABLED MainDiff)

\* run has returned after its one worker_result while a handler still waits
\* for an answer and the dispatcher still reads
C32_Witness ==
    /\ mpc = "returned" /\ Cardinality(LinesOf("worker_result")) = 1
    /\ \E d \in DrainIds : Unanswered(d)
    /\ dpc = "run"

====
